---------------------------- MODULE Spec2Model ----------------------------
(***************************************************************************)
(* A model of node-opcua's crypto_utils (src/unnamed/part_000, lines       *)
(* 1-781): the PEM codec, the chunked RSA helpers, the P_SHA1 key          *)
(* derivation, the symmetric channel protection, the selection of the      *)
(* asymmetric backend, the certificate helpers and the key-file helpers.   *)
(*                                                                         *)
(* Buffers are sequences of bytes (0..255); JavaScript strings are         *)
(* sequences of character codes.  A JavaScript value is a record           *)
(* [t |-> tag, v |-> sequence] with tag in "buffer", "string",             *)
(* "undefined", "error" (a thrown exception or failed assert).             *)
(*                                                                         *)
(* The layer has no state machine of its own: every operation is a call.   *)
(* Each group of operations gets one variable holding the call in flight   *)
(* (its inputs, the intermediate results, and the position pc of the       *)
(* caller), and one specification.                                         *)
(***************************************************************************)
EXTENDS Integers, Sequences, FiniteSets, TLC

VARIABLES pemCall, rsaCall, kdfCall, symCall, sigCall, asymCall, certCall, fileCall

vars == <<pemCall, rsaCall, kdfCall, symCall, sigCall, asymCall, certCall, fileCall>>

(***************************************************************************)
(* Bounds of the model.                                                    *)
(***************************************************************************)
\* longest raw buffer enumerated byte by byte as a PEM input
MaxPemLen == 2

\* longest buffer given to publicEncrypt_long
MaxRsaLen == 4

\* largest RSA modulus (and block_size argument), in bytes
MaxBlockSize == 4

\* bytes a padded RSA block spends on its padding at least (11 for PKCS#1
\* v1.5 with a real key; the model's keys are a few bytes long)
RsaOverhead == 2

\* largest minLength asked of makePseudoRandomBuffer (two digests and one
\* byte more) and the most bytes a second call asks for in addition
MaxPrfLen == 41

MaxPrfExtra == 2

\* longest plaintext padded and encrypted (two cipher blocks and one byte)
MaxPlainLen == 33

\* buffers given to removePadding directly: their length and byte values
MaxRawLen == 3

MaxRawByte == 4

\* longest message signed with the derived keys
MaxMsgLen == 2

(***************************************************************************)
(* JavaScript values.                                                      *)
(***************************************************************************)
Buf(s) == [t |-> "buffer", v |-> s]

Str(s) == [t |-> "string", v |-> s]

Undefined == [t |-> "undefined", v |-> <<>>]

Err == [t |-> "error", v |-> <<>>]

Idle == [pc |-> "idle"]

\* JavaScript's undefined where the model holds a name (an algorithm, a
\* padding constant): every other name is a JavaScript string
NoValue == "undefined"

Min(a, b) == IF a < b THEN a ELSE b

Max(a, b) == IF a > b THEN a ELSE b

\* all sequences over S of length 0..n
SeqsUpTo(S, n) == UNION {[1..k -> S] : k \in 0..n}

\* Buffer.prototype.slice(start, end) / String.prototype.slice: a negative
\* index counts from the end, indices are clamped to [0, length], and an
\* end before the start gives the empty buffer.  start and end are 0-based.
Slice(s, start, end) ==
    LET n  == Len(s)
        st == IF start < 0 THEN Max(n + start, 0) ELSE Min(start, n)
        en == IF end < 0 THEN Max(n + end, 0) ELSE Min(end, n)
    IN  IF en <= st THEN <<>> ELSE SubSeq(s, st + 1, en)

\* slice(start) with the end left out
SliceFrom(s, start) == Slice(s, start, Len(s))

(***************************************************************************)
(* Text: the fixed strings of the PEM envelope, as character codes.        *)
(***************************************************************************)
LF == <<10>>

DASHES == <<45, 45, 45, 45, 45>>

BEGIN_ == DASHES \o <<66, 69, 71, 73, 78, 32>>

END_ == DASHES \o <<69, 78, 68, 32>>

CERTIFICATE == <<67, 69, 82, 84, 73, 70, 73, 67, 65, 84, 69>>

RSA_PRIVATE_KEY == <<82, 83, 65, 32, 80, 82, 73, 86, 65, 84, 69, 32, 75, 69, 89>>

PUBLIC_KEY == <<80, 85, 66, 76, 73, 67, 32, 75, 69, 89>>

\* "PRIVATE KEY": a label toPem does not accept
PRIVATE_KEY == <<80, 82, 73, 86, 65, 84, 69, 32, 75, 69, 89>>

\* the array literal of toPem's second assert
PemLabels == {CERTIFICATE, RSA_PRIVATE_KEY, PUBLIC_KEY}

\* Buffer.toString("utf8"): an ASCII byte is its character; a byte that can
\* start no UTF-8 sequence decodes to U+FFFD.  (The model's buffers hold no
\* valid multi-byte sequence.)
Utf8Decode(b) == [i \in 1..Len(b) |-> IF b[i] < 128 THEN b[i] ELSE 65533]

\* new Buffer(string): the UTF-8 bytes of the string
RECURSIVE Utf8Encode(_)
Utf8Encode(s) ==
    IF Len(s) = 0 THEN <<>>
    ELSE IF Len(s) = 1 THEN (IF s[1] < 128 THEN <<s[1]>> ELSE <<239, 191, 189>>)
    ELSE LET h == Len(s) \div 2
         IN  Utf8Encode(SubSeq(s, 1, h)) \o Utf8Encode(SubSeq(s, h + 1, Len(s)))

\* the characters of a JavaScript value: raw_key.toString("utf8")
ToText(x) == IF x.t = "buffer" THEN Utf8Decode(x.v) ELSE x.v

(***************************************************************************)
(* Base64, as Buffer.toString("base64") and new Buffer(str, "base64").     *)
(***************************************************************************)
B64Char(i) ==
    IF i < 26 THEN 65 + i
    ELSE IF i < 52 THEN 97 + (i - 26)
    ELSE IF i < 62 THEN 48 + (i - 52)
    ELSE IF i = 62 THEN 43 ELSE 47

IsB64Char(c) ==
    \/ (65 <= c /\ c <= 90)
    \/ (97 <= c /\ c <= 122)
    \/ (48 <= c /\ c <= 57)
    \/ c = 43
    \/ c = 47

B64Val(c) ==
    IF 65 <= c /\ c <= 90 THEN c - 65
    ELSE IF 97 <= c /\ c <= 122 THEN c - 97 + 26
    ELSE IF 48 <= c /\ c <= 57 THEN c - 48 + 52
    ELSE IF c = 43 THEN 62 ELSE 63

\* the k-th group of three bytes gives four characters; a last group of one
\* or two bytes is filled with '='
Base64Encode(b) ==
    LET n == Len(b)
        byte(j) == IF j <= n THEN b[j] ELSE 0
        char(k) ==
            LET g == 3 * ((k - 1) \div 4)
                r == (k - 1) % 4
            IN  IF r = 0 THEN B64Char(byte(g + 1) \div 4)
                ELSE IF r = 1 THEN B64Char((byte(g + 1) % 4) * 16 + byte(g + 2) \div 16)
                ELSE IF r = 2 THEN
                    (IF g + 2 > n THEN 61
                     ELSE B64Char((byte(g + 2) % 16) * 4 + byte(g + 3) \div 64))
                ELSE (IF g + 3 > n THEN 61 ELSE B64Char(byte(g + 3) % 64))
    IN  [k \in 1..(4 * ((n + 2) \div 3)) |-> char(k)]

\* the decoder stops at the first '=' and skips every other character that
\* is not of the alphabet (line ends among them)
B64Digits(s) ==
    LET stop == CHOOSE k \in 1..(Len(s) + 1) :
                    /\ (k = Len(s) + 1 \/ s[k] = 61)
                    /\ \A j \in 1..(k - 1) : s[j] # 61
        kept == SelectSeq(SubSeq(s, 1, stop - 1), IsB64Char)
    IN  [i \in 1..Len(kept) |-> B64Val(kept[i])]

\* four digits give three bytes; a last group of two or three digits gives
\* one or two bytes, a single last digit none
B64Groups(d) ==
    LET n == Len(d)
        r == n % 4
        out == 3 * (n \div 4) + (IF r >= 2 THEN r - 1 ELSE 0)
        byte(k) ==
            LET g == 4 * ((k - 1) \div 3)
                m == (k - 1) % 3
            IN  IF m = 0 THEN d[g + 1] * 4 + d[g + 2] \div 16
                ELSE IF m = 1 THEN (d[g + 2] % 16) * 16 + d[g + 3] \div 4
                ELSE (d[g + 3] % 4) * 64 + d[g + 4]
    IN  [k \in 1..out |-> byte(k)]

Base64Decode(s) == B64Groups(B64Digits(s))

(***************************************************************************)
(* PEM_REGEX and identifyPemType.  The expression, under the flag m, is    *)
(* a line start, "-----BEGIN ", group 2 (any characters of one line),      *)
(* "-----", a line end (LF or CR LF), any number of body characters        *)
(* (base64 alphabet, "=", CR, LF), a line end, "-----END ", group 2 again, *)
(* "-----", a line end.                                                    *)
(***************************************************************************)
\* the characters "." does not match and after which "^" matches under /m
IsLineTerminator(c) == c \in {10, 13, 8232, 8233}

\* the character class of the body
IsBodyChar(c) == IsB64Char(c) \/ c = 61 \/ c = 13 \/ c = 10

\* s has the characters of w at (1-based) position p
HasAt(s, p, w) ==
    /\ p >= 1
    /\ p + Len(w) - 1 <= Len(s)
    /\ \A i \in 1..Len(w) : s[p + i - 1] = w[i]

\* a line end (LF or CR LF) at position p: the position after it, or 0 when it is not there
AfterNewline(s, p) ==
    IF HasAt(s, p, <<10>>) THEN p + 1
    ELSE IF HasAt(s, p, <<13, 10>>) THEN p + 2
    ELSE 0

\* the first line terminator at or after p (Len(s) + 1 when there is none)
LineEnd(s, p) ==
    IF p > Len(s) THEN p
    ELSE CHOOSE k \in p..(Len(s) + 1) :
             /\ (k = Len(s) + 1 \/ IsLineTerminator(s[k]))
             /\ \A j \in p..(k - 1) : ~ IsLineTerminator(s[j])

\* the end of the run of body characters that starts at p
BodyEnd(s, p) ==
    IF p > Len(s) THEN p
    ELSE CHOOSE k \in p..(Len(s) + 1) :
             /\ (k = Len(s) + 1 \/ ~ IsBodyChar(s[k]))
             /\ \A j \in p..(k - 1) : IsBodyChar(s[j])

\* The match of PEM_REGEX that starts at position p, as
\* [ok |-> BOOLEAN, label |-> group 2].  Group 2 cannot cross a line
\* terminator and "-----" and a line end must follow it, so the label is what stands
\* between "-----BEGIN " and the last "-----" of the line.
PemMatchAt(s, p) ==
    LET no  == [ok |-> FALSE, label |-> <<>>]
        q   == p + Len(BEGIN_)
        e   == LineEnd(s, q)
        lab == IF e - 5 >= q THEN SubSeq(s, q, e - 6) ELSE <<>>
        b0  == AfterNewline(s, e)
        foot == END_ \o lab \o DASHES
        be  == BodyEnd(s, b0)
    IN  IF ~ (p = 1 \/ (p > 1 /\ p <= Len(s) /\ IsLineTerminator(s[p - 1]))) THEN no
        ELSE IF ~ HasAt(s, p, BEGIN_) THEN no
        ELSE IF e - 5 < q \/ ~ HasAt(s, e - 5, DASHES) THEN no
        ELSE IF b0 = 0 THEN no
        ELSE IF \E f \in b0..be :
                    LET g == AfterNewline(s, f)
                    IN  /\ g # 0
                        /\ g <= be + 1
                        /\ HasAt(s, g, foot)
                        /\ AfterNewline(s, g + Len(foot)) # 0
             THEN [ok |-> TRUE, label |-> lab]
        ELSE no

\* PEM_REGEX.exec: the leftmost position with a match
PemExec(s) ==
    LET at == {p \in 1..Len(s) : PemMatchAt(s, p).ok}
    IN  IF at = {} THEN [ok |-> FALSE, label |-> <<>>]
        ELSE PemMatchAt(s, CHOOSE p \in at : \A r \in at : p <= r)

\* identifyPemType: match[2] as a string, or undefined
identifyPemType(raw_key) ==
    LET match == PemExec(ToText(raw_key))
    IN  IF ~ match.ok THEN Undefined ELSE Str(match.label)

\* JavaScript truthiness of what identifyPemType returns: undefined and the
\* empty string are falsy
Truthy(x) == x.t = "string" /\ Len(x.v) > 0

(***************************************************************************)
(* readPEM and toPem.                                                      *)
(***************************************************************************)
\* String.prototype.split("\n")
RECURSIVE SplitLines(_)
SplitLines(s) ==
    LET e == CHOOSE k \in 1..(Len(s) + 1) :
                 /\ (k = Len(s) + 1 \/ s[k] = 10)
                 /\ \A j \in 1..(k - 1) : s[j] # 10
    IN  IF e = Len(s) + 1 THEN <<s>>
        ELSE <<SubSeq(s, 1, e - 1)>> \o SplitLines(SubSeq(s, e + 1, Len(s)))

\* for (var i = 1; i < a.length - 2; i += 1) base64Str = base64Str + a[i];
RECURSIVE JoinLines(_, _, _)
JoinLines(a, i, base64Str) ==
    IF i < Len(a) - 2 THEN JoinLines(a, i + 1, base64Str \o a[i + 1])
    ELSE base64Str

readPEM(raw_key) ==
    LET pemType == identifyPemType(raw_key)
    IN  IF Truthy(pemType)
        THEN LET key == ToText(raw_key)
                 a   == SplitLines(key)
             IN  Buf(Base64Decode(JoinLines(a, 1, <<>>)))
        ELSE IF raw_key.t = "string" THEN Buf(Utf8Encode(raw_key.v))
        ELSE Buf(raw_key.v)

\* while (b.length) { str += b.substr(0, 64) + "\n"; b = b.substr(64); }
RECURSIVE WrapLines(_, _)
WrapLines(str, b) ==
    IF Len(b) = 0 THEN str
    ELSE WrapLines(str \o Slice(b, 0, 64) \o LF, SliceFrom(b, 64))

toPem(raw_key, pem) ==
    IF pem.t # "string" THEN Err
    ELSE IF Truthy(identifyPemType(raw_key)) THEN raw_key
    ELSE IF pem.v \notin PemLabels THEN Err
    ELSE Str(WrapLines(BEGIN_ \o pem.v \o DASHES \o LF, Base64Encode(raw_key.v))
             \o END_ \o pem.v \o DASHES \o LF)

(***************************************************************************)
(* Calls of the PEM codec: toPem on a buffer, then readPEM on its result.  *)
(***************************************************************************)
\* bytes of the enumerated raw buffers: NUL, 'A', and a byte that is no text
PemBytes == {0, 65, 255}

\* a buffer long enough for several 64-character base64 lines
LongBuffer(n) == [i \in 1..n |-> (i * 37) % 256]

\* buffers whose bytes are themselves a PEM file
PemLookalikes ==
    {Utf8Encode(toPem(Buf(b), Str(l)).v) : b \in {<<65>>, <<0, 255>>}, l \in PemLabels}

PemInputs ==
    SeqsUpTo(PemBytes, MaxPemLen)
        \cup {LongBuffer(n) : n \in {47, 48, 49, 97}}
        \cup PemLookalikes

PemRequestedTypes == {Str(l) : l \in PemLabels \cup {PRIVATE_KEY}}

InitPem ==
    /\ pemCall \in [pc : {"start"}, raw_key : {Buf(b) : b \in PemInputs},
                type : PemRequestedTypes, text : {Undefined}, out : {Undefined}]
    /\ rsaCall = Idle
    /\ kdfCall = Idle
    /\ symCall = Idle
    /\ sigCall = Idle
    /\ asymCall = Idle
    /\ certCall = Idle
    /\ fileCall = Idle

CallToPem ==
    /\ pemCall.pc = "start"
    /\ pemCall' = [pemCall EXCEPT !.pc = "toPem", !.text = toPem(pemCall.raw_key, pemCall.type)]
    /\ UNCHANGED <<rsaCall, kdfCall, symCall, sigCall,
                 asymCall, certCall, fileCall>>

CallReadPEM ==
    /\ pemCall.pc = "toPem"
    /\ pemCall.text.t # "error"
    /\ pemCall' = [pemCall EXCEPT !.pc = "readPEM", !.out = readPEM(pemCall.text)]
    /\ UNCHANGED <<rsaCall, kdfCall, symCall, sigCall,
                 asymCall, certCall, fileCall>>

NextPem == CallToPem \/ CallReadPEM

SpecPem == InitPem /\ [][NextPem]_vars

\* C1: PEM round-trip.  For every byte buffer b (the empty buffer and a
\* buffer that already looks like a PEM envelope included) and every label
\* T of CERTIFICATE, RSA PRIVATE KEY, PUBLIC KEY, readPEM(toPem(b, T))
\* returns exactly the bytes of b.
C1_PemRoundTrip ==
    (pemCall.pc = "readPEM" /\ pemCall.type.v \in PemLabels) => pemCall.out = pemCall.raw_key

\* The round trip as far as the code gives it: a non-empty buffer that is
\* not identified as PEM comes back unchanged.
PemRoundTripOfRawNonEmpty ==
    (/\ pemCall.pc = "readPEM"
     /\ pemCall.type.v \in PemLabels
     /\ Len(pemCall.raw_key.v) > 0
     /\ ~ Truthy(identifyPemType(pemCall.raw_key)))
        => pemCall.out = pemCall.raw_key

(***************************************************************************)
(* Single-block RSA: publicEncrypt_native / privateDecrypt_native (and the *)
(* ursa variants, which differ in the library called).  The library is     *)
(* modelled by what the callers depend on: a plaintext of at most          *)
(* size - RsaOverhead bytes is padded to one block of exactly size bytes   *)
(* (a type byte, non-zero filler, a zero separator, the message) and       *)
(* transformed under the key; decryption undoes the transformation with    *)
(* the private key, rejects a block of another length or with broken       *)
(* padding, and returns the message.  A key is [id, size].                 *)
(***************************************************************************)
PadBlock(m, size) == <<2>> \o [i \in 1..(size - 2 - Len(m)) |-> 255] \o <<0>> \o m

publicEncrypt(buffer, public_key) ==
    IF Len(buffer) > public_key.size - RsaOverhead THEN Err
    ELSE LET e == PadBlock(buffer, public_key.size)
         IN  Buf([i \in 1..Len(e) |-> (e[i] + 7 * public_key.id) % 256])

privateDecrypt(buffer, private_key) ==
    IF Len(buffer) # private_key.size THEN Err
    ELSE LET e == [i \in 1..Len(buffer) |-> (buffer[i] + 256 - 7 * private_key.id) % 256]
             zeros == {k \in 2..Len(e) : e[k] = 0}
         IN  IF e[1] # 2 \/ zeros = {} THEN Err
             ELSE LET z == CHOOSE k \in zeros : \A j \in zeros : k <= j
                  IN  Buf(SubSeq(e, z + 1, Len(e)))

\* new Buffer(n): n bytes of uninitialised memory (256 marks a byte that
\* was never written)
NewBuffer(n) == [i \in 1..n |-> 256]

\* source.copy(target, targetStart): copies as many bytes as fit
Copy(source, target, targetStart) ==
    [k \in 1..Len(target) |->
        IF k > targetStart /\ k <= targetStart + Len(source)
        THEN source[k - targetStart] ELSE target[k]]

\* Math.ceil(a / b) for a >= 0, b > 0
Ceil(a, b) == (a + b - 1) \div b

(***************************************************************************)
(* publicEncrypt_long and privateDecrypt_long.                             *)
(***************************************************************************)
\* the loop of publicEncrypt_long without the assert on the length of the
\* encrypted chunk
RECURSIVE EncryptLoop_NoLengthCheck(_, _, _, _, _, _, _)
EncryptLoop_NoLengthCheck(buffer, key, block_size, chunk_size, nbBlocks, i, outputBuffer) ==
    IF i < nbBlocks
    THEN LET currentBlock == Slice(buffer, chunk_size * i, chunk_size * (i + 1))
             encrypted_chunk == publicEncrypt(currentBlock, key)
         IN  IF encrypted_chunk.t = "error" THEN Err
             ELSE EncryptLoop_NoLengthCheck(buffer, key, block_size, chunk_size, nbBlocks,
                                            i + 1,
                                            Copy(encrypted_chunk.v, outputBuffer,
                                                 i * block_size))
    ELSE Buf(outputBuffer)

\* for (var i = 0; i < nbBlocks; i++) of publicEncrypt_long
RECURSIVE EncryptLoop(_, _, _, _, _, _, _)
EncryptLoop(buffer, key, block_size, chunk_size, nbBlocks, i, outputBuffer) ==
    IF i < nbBlocks
    THEN LET currentBlock == Slice(buffer, chunk_size * i, chunk_size * (i + 1))
             encrypted_chunk == publicEncrypt(currentBlock, key)
         IN  IF encrypted_chunk.t = "error" THEN Err
             ELSE IF Len(encrypted_chunk.v) # block_size THEN Err
             ELSE EncryptLoop(buffer, key, block_size, chunk_size, nbBlocks, i + 1,
                              Copy(encrypted_chunk.v, outputBuffer, i * block_size))
    ELSE Buf(outputBuffer)

\* publicEncrypt_long rounding the number of blocks down: a last, short
\* chunk is left out
publicEncrypt_long_Floor(buffer, key, block_size, padding) ==
    LET chunk_size == block_size - padding
        nbBlocks == Len(buffer) \div chunk_size
    IN  EncryptLoop(buffer, key, block_size, chunk_size, nbBlocks, 0,
                    NewBuffer(nbBlocks * block_size))

publicEncrypt_long(buffer, key, block_size, padding) ==
    LET chunk_size == block_size - padding
        nbBlocks == Ceil(Len(buffer), chunk_size)
    IN  EncryptLoop(buffer, key, block_size, chunk_size, nbBlocks, 0,
                    NewBuffer(nbBlocks * block_size))

\* the loop of privateDecrypt_long writing the i-th decrypted chunk at
\* i * block_size, where its ciphertext block stood, instead of at the end
\* of what is decrypted so far
RECURSIVE DecryptLoop_BlockOffsets(_, _, _, _, _, _, _)
DecryptLoop_BlockOffsets(buffer, key, block_size, nbBlocks, i, total_length, outputBuffer) ==
    IF i < nbBlocks
    THEN LET currentBlock == Slice(buffer, block_size * i,
                                   Min(block_size * (i + 1), Len(buffer)))
             decrypted_buf == privateDecrypt(currentBlock, key)
         IN  IF decrypted_buf.t = "error" THEN Err
             ELSE DecryptLoop_BlockOffsets(buffer, key, block_size, nbBlocks, i + 1,
                                           total_length + Len(decrypted_buf.v),
                                           Copy(decrypted_buf.v, outputBuffer,
                                                i * block_size))
    ELSE Buf(Slice(outputBuffer, 0, total_length))

\* for (var i = 0; i < nbBlocks; i++) of privateDecrypt_long
RECURSIVE DecryptLoop(_, _, _, _, _, _, _)
DecryptLoop(buffer, key, block_size, nbBlocks, i, total_length, outputBuffer) ==
    IF i < nbBlocks
    THEN LET currentBlock == Slice(buffer, block_size * i,
                                   Min(block_size * (i + 1), Len(buffer)))
             decrypted_buf == privateDecrypt(currentBlock, key)
         IN  IF decrypted_buf.t = "error" THEN Err
             ELSE DecryptLoop(buffer, key, block_size, nbBlocks, i + 1,
                              total_length + Len(decrypted_buf.v),
                              Copy(decrypted_buf.v, outputBuffer, total_length))
    ELSE Buf(Slice(outputBuffer, 0, total_length))

privateDecrypt_long(buffer, key, block_size) ==
    LET nbBlocks == Ceil(Len(buffer), block_size)
    IN  DecryptLoop(buffer, key, block_size, nbBlocks, 0, 0,
                    NewBuffer(nbBlocks * block_size))

(***************************************************************************)
(* Calls of the chunked RSA helpers: publicEncrypt_long on a buffer, then  *)
(* privateDecrypt_long on its result.                                      *)
(***************************************************************************)
RsaBytes == {0, 7}

RsaKeySizes == (RsaOverhead + 1)..MaxBlockSize

RsaKeys == [id : {1, 2}, size : RsaKeySizes]

InitRsa ==
    /\ \E bs \in RsaKeySizes :
          rsaCall \in [pc : {"start"}, buffer : SeqsUpTo(RsaBytes, MaxRsaLen),
                       public_key : RsaKeys, private_key : RsaKeys,
                       block_size : {bs}, padding : 0..(bs - 1),
                       encrypted : {Undefined}, decrypted : {Undefined}]
    /\ pemCall = Idle
    /\ kdfCall = Idle
    /\ symCall = Idle
    /\ sigCall = Idle
    /\ asymCall = Idle
    /\ certCall = Idle
    /\ fileCall = Idle

CallPublicEncryptLong ==
    /\ rsaCall.pc = "start"
    /\ rsaCall' = [rsaCall EXCEPT
                     !.pc = "encrypted",
                     !.encrypted = publicEncrypt_long(rsaCall.buffer, rsaCall.public_key,
                                                      rsaCall.block_size, rsaCall.padding)]
    /\ UNCHANGED <<pemCall, kdfCall, symCall, sigCall,
                 asymCall, certCall, fileCall>>

CallPrivateDecryptLong ==
    /\ rsaCall.pc = "encrypted"
    /\ rsaCall.encrypted.t = "buffer"
    /\ rsaCall' = [rsaCall EXCEPT
                     !.pc = "decrypted",
                     !.decrypted = privateDecrypt_long(rsaCall.encrypted.v, rsaCall.private_key,
                                                       rsaCall.block_size)]
    /\ UNCHANGED <<pemCall, kdfCall, symCall, sigCall,
                 asymCall, certCall, fileCall>>

NextRsa == CallPublicEncryptLong \/ CallPrivateDecryptLong

SpecRsa == InitRsa /\ [][NextRsa]_vars

\* the hypothesis of C2: the single-block primitives round-trip every
\* plaintext of at most block_size - padding bytes into one block of
\* block_size bytes
PrimitivesRoundTrip(pub, priv, block_size, padding) ==
    \A p \in SeqsUpTo(RsaBytes, block_size - padding) :
        LET c == publicEncrypt(p, pub)
        IN  /\ c.t = "buffer"
            /\ Len(c.v) = block_size
            /\ privateDecrypt(c.v, priv) = Buf(p)

\* C2: chunked RSA round-trip.  For every buffer b of any length (0 and
\* lengths that are no multiple of block_size - padding included) and a
\* matching key pair whose single-block primitives round-trip every
\* plaintext of at most block_size - padding bytes, publicEncrypt_long
\* succeeds and privateDecrypt_long of its result equals b.
C2_ChunkedRsaRoundTrip ==
    PrimitivesRoundTrip(rsaCall.public_key, rsaCall.private_key,
                        rsaCall.block_size, rsaCall.padding)
        => /\ rsaCall.pc = "encrypted" => rsaCall.encrypted.t = "buffer"
           /\ rsaCall.pc = "decrypted" => rsaCall.decrypted = Buf(rsaCall.buffer)

\* a buffer of several chunks, the last one short, has made the round trip
C2_Witness ==
    /\ rsaCall.pc = "decrypted"
    /\ PrimitivesRoundTrip(rsaCall.public_key, rsaCall.private_key,
                           rsaCall.block_size, rsaCall.padding)
    /\ Len(rsaCall.buffer) > rsaCall.block_size - rsaCall.padding
    /\ Len(rsaCall.buffer) % (rsaCall.block_size - rsaCall.padding) # 0
    /\ rsaCall.decrypted = Buf(rsaCall.buffer)

\* C22: publicEncrypt_long framing.  For a buffer of length L, block_size B
\* and padding P (0 <= P < B) exactly ceil(L / (B - P)) blocks are
\* produced, the output is that many times B bytes long, and the i-th block
\* of B bytes is the encryption of the plaintext bytes from i * (B - P) to
\* min((i + 1) * (B - P), L); the call fails if the encryption of a chunk
\* fails or is not exactly B bytes long.
C22_EncryptFraming ==
    rsaCall.pc = "encrypted" =>
        LET L == Len(rsaCall.buffer)
            B == rsaCall.block_size
            chunk_size == B - rsaCall.padding
            count == (L + chunk_size - 1) \div chunk_size
            plain(i) == SubSeq(rsaCall.buffer, i * chunk_size + 1,
                               Min((i + 1) * chunk_size, L))
            block(i) == publicEncrypt(plain(i), rsaCall.public_key)
            out == rsaCall.encrypted
        IN  IF \A i \in 0..(count - 1) : block(i).t = "buffer" /\ Len(block(i).v) = B
            THEN /\ out.t = "buffer"
                 /\ Len(out.v) = count * B
                 /\ \A i \in 0..(count - 1) :
                       SubSeq(out.v, i * B + 1, (i + 1) * B) = block(i).v
            ELSE out = Err

\* a buffer was encrypted into several blocks, the last of a short chunk
C22_Witness ==
    /\ rsaCall.pc = "encrypted"
    /\ rsaCall.encrypted.t = "buffer"
    /\ Len(rsaCall.buffer) > rsaCall.block_size - rsaCall.padding
    /\ Len(rsaCall.buffer) % (rsaCall.block_size - rsaCall.padding) # 0
    /\ Len(rsaCall.encrypted.v) >= 2 * rsaCall.block_size

(***************************************************************************)
(* HMAC-SHA1: crypto.createHmac("SHA1", key).update(message).digest().     *)
(* The library's digest is modelled by a keyed checksum of DigestLen       *)
(* bytes in which every byte of the digest depends on every byte of the    *)
(* key and of the message and on its position: a change of one byte        *)
(* changes every byte of the digest.                                       *)
(***************************************************************************)
DigestLen == 20

\* the sum of (s[j] + 1) over j in lo..hi
RECURSIVE ByteSum(_, _, _)
ByteSum(s, lo, hi) ==
    IF lo > hi THEN 0
    ELSE IF lo = hi THEN s[lo] + 1
    ELSE LET mid == (lo + hi) \div 2
         IN  ByteSum(s, lo, mid) + ByteSum(s, mid + 1, hi)

\* the sum of (2j + 1) * (s[j] + 1) over j in lo..hi
RECURSIVE WeightedSum(_, _, _)
WeightedSum(s, lo, hi) ==
    IF lo > hi THEN 0
    ELSE IF lo = hi THEN (2 * lo + 1) * (s[lo] + 1)
    ELSE LET mid == (lo + hi) \div 2
         IN  WeightedSum(s, lo, mid) + WeightedSum(s, mid + 1, hi)

HMAC_SHA1(secret, message) ==
    LET w == WeightedSum(message, 1, Len(message))
        t == ByteSum(message, 1, Len(message))
        k == 5 * WeightedSum(secret, 1, Len(secret)) + 11 * Len(secret)
    IN  [i \in 1..DigestLen |-> (17 * i + 3 * Len(message) + w + 2 * i * t + k) % 256]

\* Buffer.concat([buf1, buf2])
plus(buf1, buf2) == buf1 \o buf2

(***************************************************************************)
(* makePseudoRandomBuffer and computeDerivedKeys.                          *)
(***************************************************************************)
\* the loop with the second HMAC taken over seed ++ A(n) instead of
\* A(n) ++ seed
RECURSIVE PrfLoop_SeedFirst(_, _, _, _, _)
PrfLoop_SeedFirst(secret, seed, minLength, a_prev, p_sha1) ==
    IF Len(p_sha1) <= minLength
    THEN LET a_index == HMAC_SHA1(secret, a_prev)
         IN  PrfLoop_SeedFirst(secret, seed, minLength, a_index,
                               plus(p_sha1, HMAC_SHA1(secret, plus(seed, a_index))))
    ELSE p_sha1

\* while (p_sha1.length <= minLength) { a[index] = ...; p_sha1 = ...; index += 1 }
\* with a_prev = a[index - 1]
RECURSIVE PrfLoop(_, _, _, _, _)
PrfLoop(secret, seed, minLength, a_prev, p_sha1) ==
    IF Len(p_sha1) <= minLength
    THEN LET a_index == HMAC_SHA1(secret, a_prev)
         IN  PrfLoop(secret, seed, minLength, a_index,
                     plus(p_sha1, HMAC_SHA1(secret, plus(a_index, seed))))
    ELSE p_sha1

\* makePseudoRandomBuffer returning the last minLength bytes generated
\* instead of the first
makePseudoRandomBuffer_Tail(secret, seed, minLength) ==
    LET p_sha1 == PrfLoop(secret, seed, minLength, seed, <<>>)
    IN  Slice(p_sha1, Len(p_sha1) - minLength, Len(p_sha1))

makePseudoRandomBuffer(secret, seed, minLength) ==
    Slice(PrfLoop(secret, seed, minLength, seed, <<>>), 0, minLength)

\* minLength of computeDerivedKeys: offset3
KeyBytesRequested(options) ==
    LET offset1 == options.signingKeyLength
        offset2 == offset1 + options.encryptingKeyLength
        offset3 == offset2 + options.encryptingBlockSize
    IN  offset3

\* computeDerivedKeys cutting the encrypting key from the start of the
\* stream, so that it overlaps the signing key
computeDerivedKeys_Overlap(secret, seed, options) ==
    LET offset1 == options.signingKeyLength
        offset2 == offset1 + options.encryptingKeyLength
        offset3 == offset2 + options.encryptingBlockSize
        buf == makePseudoRandomBuffer(secret, seed, offset3)
    IN  [signingKey |-> Slice(buf, 0, offset1),
         encryptingKey |-> Slice(buf, 0, offset2 - offset1),
         initializationVector |-> Slice(buf, offset2, offset3),
         signingKeyLength |-> options.signingKeyLength,
         encryptingKeyLength |-> options.encryptingKeyLength,
         encryptingBlockSize |-> options.encryptingBlockSize,
         signatureLength |-> options.signatureLength,
         algorithm |-> options.algorithm]

\* the lengths of the options are numbers in every call of the model, so
\* of the four asserts the one on the type of options.algorithm can fail
computeDerivedKeys(secret, seed, options) ==
    LET offset1 == options.signingKeyLength
        offset2 == offset1 + options.encryptingKeyLength
        offset3 == offset2 + options.encryptingBlockSize
        minLength == KeyBytesRequested(options)
        buf == makePseudoRandomBuffer(secret, seed, minLength)
    IN  IF options.algorithm = NoValue THEN Err
        ELSE [signingKey |-> Slice(buf, 0, offset1),
              encryptingKey |-> Slice(buf, offset1, offset2),
              initializationVector |-> Slice(buf, offset2, offset3),
              signingKeyLength |-> options.signingKeyLength,
              encryptingKeyLength |-> options.encryptingKeyLength,
              encryptingBlockSize |-> options.encryptingBlockSize,
              signatureLength |-> options.signatureLength,
              algorithm |-> options.algorithm]

(***************************************************************************)
(* Calls of the key derivation: either makePseudoRandomBuffer and a second *)
(* call that asks for k bytes more, or computeDerivedKeys.                 *)
(***************************************************************************)
\* the nonces of the fixed-vector scenario (20 bytes 0x00, 20 bytes 0x01)
\* and two short ones
Secrets == {[i \in 1..20 |-> 0], <<3, 7>>}

Seeds == {[i \in 1..20 |-> 1], <<9>>}

\* length configurations: those of the security policies Basic128Rsa15
\* (16, 16, 16) and Basic256 (24, 32, 16) among them
KeyOptions ==
    [signingKeyLength : {0, 1, 16, 24}, encryptingKeyLength : {1, 16, 32},
     encryptingBlockSize : {1, 8, 16}, signatureLength : {DigestLen},
     algorithm : {"aes-128-cbc"}]

InitKdf ==
    /\ \/ kdfCall \in [pc : {"prfStart"}, secret : Secrets, seed : Seeds,
                       minLength : 0..MaxPrfLen, out : {<<>>},
                       k : {0}, out2 : {<<>>}]
       \/ kdfCall \in [pc : {"deriveStart"}, secret : Secrets, seed : Seeds,
                       options : KeyOptions, requested : {0}, keys : {Undefined}]
    /\ pemCall = Idle
    /\ rsaCall = Idle
    /\ symCall = Idle
    /\ sigCall = Idle
    /\ asymCall = Idle
    /\ certCall = Idle
    /\ fileCall = Idle

CallMakePseudoRandomBuffer ==
    /\ kdfCall.pc = "prfStart"
    /\ kdfCall' = [kdfCall EXCEPT
                     !.pc = "prf",
                     !.out = makePseudoRandomBuffer(kdfCall.secret, kdfCall.seed,
                                                    kdfCall.minLength)]
    /\ UNCHANGED <<pemCall, rsaCall, symCall, sigCall,
                 asymCall, certCall, fileCall>>

CallMakePseudoRandomBufferAgain ==
    /\ kdfCall.pc = "prf"
    /\ \E k \in 0..MaxPrfExtra :
          kdfCall' = [kdfCall EXCEPT
                        !.pc = "prf2",
                        !.k = k,
                        !.out2 = makePseudoRandomBuffer(kdfCall.secret, kdfCall.seed,
                                                        kdfCall.minLength + k)]
    /\ UNCHANGED <<pemCall, rsaCall, symCall, sigCall,
                 asymCall, certCall, fileCall>>

CallComputeDerivedKeys ==
    /\ kdfCall.pc = "deriveStart"
    /\ kdfCall' = [kdfCall EXCEPT
                     !.pc = "derived",
                     !.requested = KeyBytesRequested(kdfCall.options),
                     !.keys = computeDerivedKeys(kdfCall.secret, kdfCall.seed,
                                                 kdfCall.options)]
    /\ UNCHANGED <<pemCall, rsaCall, symCall, sigCall,
                 asymCall, certCall, fileCall>>

NextKdf ==
    \/ CallMakePseudoRandomBuffer
    \/ CallMakePseudoRandomBufferAgain
    \/ CallComputeDerivedKeys

SpecKdf == InitKdf /\ [][NextKdf]_vars

\* C5: key slicing.  For every valid length configuration computeDerivedKeys
\* requests exactly signingKeyLength + encryptingKeyLength +
\* encryptingBlockSize bytes of the pseudo-random stream and returns its
\* bytes [0, signingKeyLength) as signingKey, the next encryptingKeyLength
\* bytes as encryptingKey and the next encryptingBlockSize bytes as
\* initializationVector: exact lengths, no overlap, that order.
C5_KeySlicing ==
    kdfCall.pc = "derived" =>
        LET o == kdfCall.options
            keys == kdfCall.keys
            n1 == o.signingKeyLength
            n2 == o.encryptingKeyLength
            n3 == o.encryptingBlockSize
            stream == makePseudoRandomBuffer(kdfCall.secret, kdfCall.seed, n1 + n2 + n3)
        IN  /\ kdfCall.requested = n1 + n2 + n3
            /\ Len(stream) = n1 + n2 + n3
            /\ Len(keys.signingKey) = n1
            /\ Len(keys.encryptingKey) = n2
            /\ Len(keys.initializationVector) = n3
            /\ keys.signingKey = SubSeq(stream, 1, n1)
            /\ keys.encryptingKey = SubSeq(stream, n1 + 1, n1 + n2)
            /\ keys.initializationVector = SubSeq(stream, n1 + n2 + 1, n1 + n2 + n3)
            /\ keys.signingKey \o keys.encryptingKey \o keys.initializationVector = stream

\* keys of the Basic256 lengths have been derived, and the three differ
C5_Witness ==
    /\ kdfCall.pc = "derived"
    /\ kdfCall.options.signingKeyLength = 24
    /\ kdfCall.options.encryptingKeyLength = 32
    /\ kdfCall.options.encryptingBlockSize = 16
    /\ Len(kdfCall.keys.encryptingKey) = 32
    /\ kdfCall.keys.signingKey # SubSeq(kdfCall.keys.encryptingKey, 1, 24)

\* C6: PRF prefix property.  For every secret, seed, n >= 0 and k >= 0,
\* makePseudoRandomBuffer(secret, seed, n) is a prefix of
\* makePseudoRandomBuffer(secret, seed, n + k); with k = 0 the second call
\* returns the bytes of the first.
C6_PrfPrefix ==
    kdfCall.pc = "prf2" =>
        /\ Len(kdfCall.out2) >= Len(kdfCall.out)
        /\ kdfCall.out = SubSeq(kdfCall.out2, 1, Len(kdfCall.out))
        /\ kdfCall.k = 0 => kdfCall.out2 = kdfCall.out

\* a second call has extended a result across a digest boundary
C6_Witness ==
    /\ kdfCall.pc = "prf2"
    /\ kdfCall.minLength = DigestLen - 1
    /\ kdfCall.k = 2
    /\ Len(kdfCall.out2) = DigestLen + 1
    /\ kdfCall.out = SubSeq(kdfCall.out2, 1, DigestLen - 1)

\* P_SHA1 as the standard defines it: A(0) = seed, A(n) = HMAC_SHA1(secret,
\* A(n-1)), block n = HMAC_SHA1(secret, A(n) ++ seed)
RECURSIVE A(_, _, _)
A(secret, seed, n) ==
    IF n = 0 THEN seed ELSE HMAC_SHA1(secret, A(secret, seed, n - 1))

\* the first m blocks of P_SHA1(secret, seed)
RECURSIVE P_SHA1(_, _, _)
P_SHA1(secret, seed, m) ==
    IF m = 0 THEN <<>>
    ELSE P_SHA1(secret, seed, m - 1) \o HMAC_SHA1(secret, A(secret, seed, m) \o seed)

\* C7: PRF construction.  For every secret, seed and minLength >= 0,
\* makePseudoRandomBuffer returns exactly minLength bytes, the first
\* minLength bytes of HMAC_SHA1(secret, A(1) ++ seed) ++ HMAC_SHA1(secret,
\* A(2) ++ seed) ++ ...; for a minLength of one digest the result is
\* HMAC_SHA1(secret, HMAC_SHA1(secret, seed) ++ seed), also when minLength
\* is an exact multiple of the digest size.
C7_PrfConstruction ==
    kdfCall.pc = "prf" =>
        LET n == kdfCall.minLength
            blocks == Ceil(n, DigestLen)
        IN  /\ Len(kdfCall.out) = n
            /\ kdfCall.out = SubSeq(P_SHA1(kdfCall.secret, kdfCall.seed, blocks), 1, n)
            /\ n = DigestLen =>
                   kdfCall.out = HMAC_SHA1(kdfCall.secret,
                                           HMAC_SHA1(kdfCall.secret, kdfCall.seed)
                                               \o kdfCall.seed)

\* the fixed vector's nonces with a minLength of exactly two digests
C7_Witness ==
    /\ kdfCall.pc = "prf"
    /\ kdfCall.secret = [i \in 1..20 |-> 0]
    /\ kdfCall.seed = [i \in 1..20 |-> 1]
    /\ kdfCall.minLength = 2 * DigestLen
    /\ Len(kdfCall.out) = 2 * DigestLen
    /\ SubSeq(kdfCall.out, 1, DigestLen)
           = HMAC_SHA1(kdfCall.secret, HMAC_SHA1(kdfCall.secret, kdfCall.seed) \o kdfCall.seed)
    /\ SubSeq(kdfCall.out, 1, DigestLen) # SubSeq(kdfCall.out, DigestLen + 1, 2 * DigestLen)

(***************************************************************************)
(* The CBC cipher: crypto.createCipheriv / createDecipheriv with           *)
(* setAutoPadding(false).  The library is modelled by what the callers     *)
(* depend on: the constructor rejects a key or an IV whose length is not   *)
(* the algorithm's, final() rejects data that is no whole number of        *)
(* blocks, and each block is chained to the previous cipher block (the IV  *)
(* first) by XOR and put through a keyed, invertible block transformation. *)
(***************************************************************************)
AesBlockSize == 16

AesKeyLength(algorithm) == IF algorithm = "aes-128-cbc" THEN 16 ELSE 32

RECURSIVE Xor(_, _)
Xor(a, b) ==
    IF a = 0 THEN b
    ELSE IF b = 0 THEN a
    ELSE ((a + b) % 2) + 2 * Xor(a \div 2, b \div 2)

XorBlock(x, y) == [i \in 1..Len(x) |-> Xor(x[i], y[i])]

\* the key byte(s) that act on position i of a block
KeyByte(key, i) ==
    (key[i] + (IF Len(key) >= i + AesBlockSize THEN key[i + AesBlockSize] ELSE 0) + i) % 256

BlockEncrypt(key, x) == [i \in 1..Len(x) |-> (x[i] + KeyByte(key, i)) % 256]

BlockDecrypt(key, y) == [i \in 1..Len(y) |-> (y[i] + 256 - KeyByte(key, i)) % 256]

RECURSIVE CbcEncrypt(_, _, _)
CbcEncrypt(key, previous, data) ==
    IF Len(data) = 0 THEN <<>>
    ELSE LET c == BlockEncrypt(key, XorBlock(SubSeq(data, 1, AesBlockSize), previous))
         IN  c \o CbcEncrypt(key, c, SubSeq(data, AesBlockSize + 1, Len(data)))

RECURSIVE CbcDecrypt(_, _, _)
CbcDecrypt(key, previous, data) ==
    IF Len(data) = 0 THEN <<>>
    ELSE LET c == SubSeq(data, 1, AesBlockSize)
         IN  XorBlock(BlockDecrypt(key, c), previous)
                 \o CbcDecrypt(key, c, SubSeq(data, AesBlockSize + 1, Len(data)))

\* what createCipheriv / createDecipheriv and final() accept
CipherAccepts(algorithm, key, initVector, buffer) ==
    /\ Len(key) = AesKeyLength(algorithm)
    /\ Len(initVector) = AesBlockSize
    /\ Len(buffer) % AesBlockSize = 0

(***************************************************************************)
(* computePaddingFooter, encryptBufferWithDerivedKeys,                     *)
(* decryptBufferWithDerivedKeys, reduceLength, removePadding.              *)
(***************************************************************************)
\* computePaddingFooter without the byte that holds the length
computePaddingFooter_NoLengthByte(buffer, derivedKeys) ==
    LET paddingSize == derivedKeys.encryptingBlockSize
                           - (Len(buffer) % derivedKeys.encryptingBlockSize)
    IN  [i \in 1..(paddingSize + 1) |-> paddingSize % 256]

\* padding.fill(paddingSize) writes the value as one byte
computePaddingFooter(buffer, derivedKeys) ==
    LET paddingSize == derivedKeys.encryptingBlockSize
                           - ((Len(buffer) + 1) % derivedKeys.encryptingBlockSize)
    IN  [i \in 1..(paddingSize + 1) |-> paddingSize % 256]

\* derivedKeys.algorithm || "aes-128-cbc", or "error" when the assert fails
derivedKeys_algorithm(derivedKeys) ==
    LET algorithm == IF derivedKeys.algorithm \in {"", NoValue} THEN "aes-128-cbc"
                     ELSE derivedKeys.algorithm
    IN  IF algorithm = "aes-128-cbc" \/ algorithm = "aes-256-cbc" THEN algorithm
        ELSE "error"

encryptBufferWithDerivedKeys(buffer, derivedKeys) ==
    LET algorithm == derivedKeys_algorithm(derivedKeys)
        key == derivedKeys.encryptingKey
        initVector == derivedKeys.initializationVector
    IN  IF algorithm = "error" THEN Err
        ELSE IF ~ CipherAccepts(algorithm, key, initVector, buffer) THEN Err
        ELSE Buf(CbcEncrypt(key, initVector, buffer))

decryptBufferWithDerivedKeys(buffer, derivedKeys) ==
    LET algorithm == derivedKeys_algorithm(derivedKeys)
        key == derivedKeys.encryptingKey
        initVector == derivedKeys.initializationVector
    IN  IF algorithm = "error" THEN Err
        ELSE IF ~ CipherAccepts(algorithm, key, initVector, buffer) THEN Err
        ELSE Buf(CbcDecrypt(key, initVector, buffer))

reduceLength(buffer, byte_to_remove) == Slice(buffer, 0, Len(buffer) - byte_to_remove)

\* removePadding taking the last byte as the number of bytes to remove
removePadding_LengthByteKept(buffer) ==
    IF Len(buffer) = 0 THEN Err
    ELSE Buf(reduceLength(buffer, buffer[Len(buffer)]))

\* buffer.readUInt8(buffer.length - 1) throws on the empty buffer
removePadding(buffer) ==
    IF Len(buffer) = 0 THEN Err
    ELSE LET nbPaddingBytes == buffer[Len(buffer)] + 1
         IN  Buf(reduceLength(buffer, nbPaddingBytes))

(***************************************************************************)
(* Calls of the symmetric protection: a plaintext gets its footer, is      *)
(* encrypted, decrypted and stripped of its padding; or removePadding is   *)
(* called on a buffer as it is.                                            *)
(***************************************************************************)
\* the lengths of Basic128Rsa15 and of Basic256
Basic128Rsa15 ==
    [signingKeyLength |-> 16, encryptingKeyLength |-> 16, encryptingBlockSize |-> 16,
     signatureLength |-> DigestLen, algorithm |-> "aes-128-cbc"]

Basic256 ==
    [signingKeyLength |-> 24, encryptingKeyLength |-> 32, encryptingBlockSize |-> 16,
     signatureLength |-> DigestLen, algorithm |-> "aes-256-cbc"]

\* the two policies, and configurations with another encryptingBlockSize,
\* with a key of the other algorithm's length, and with no algorithm name
SymOptions ==
    {Basic128Rsa15, Basic256}
        \cup {[Basic128Rsa15 EXCEPT !.encryptingBlockSize = b] : b \in {1, 8}}
        \cup {[Basic256 EXCEPT !.encryptingKeyLength = 16],
              [Basic128Rsa15 EXCEPT !.algorithm = ""]}

SymKeySets ==
    {computeDerivedKeys([i \in 1..20 |-> 0], [i \in 1..20 |-> 1], o) : o \in SymOptions}

Plaintext(n, first) == [i \in 1..n |-> (first + 3 * i) % 256]

InitSym ==
    /\ \/ symCall \in [pc : {"start"}, keys : SymKeySets,
                       plaintext : {Plaintext(n, f) : n \in 0..MaxPlainLen, f \in {0, 250}},
                       footer : {<<>>}, encrypted : {Undefined},
                       decrypted : {Undefined}, stripped : {Undefined}]
       \/ symCall \in [pc : {"raw"}, buffer : SeqsUpTo(0..MaxRawByte, MaxRawLen),
                       stripped : {Undefined}]
    /\ pemCall = Idle
    /\ rsaCall = Idle
    /\ kdfCall = Idle
    /\ sigCall = Idle
    /\ asymCall = Idle
    /\ certCall = Idle
    /\ fileCall = Idle

CallComputePaddingFooter ==
    /\ symCall.pc = "start"
    /\ symCall' = [symCall EXCEPT
                     !.pc = "footer",
                     !.footer = computePaddingFooter(symCall.plaintext, symCall.keys)]
    /\ UNCHANGED <<pemCall, rsaCall, kdfCall, sigCall,
                 asymCall, certCall, fileCall>>

CallEncryptBuffer ==
    /\ symCall.pc = "footer"
    /\ symCall' = [symCall EXCEPT
                     !.pc = "encrypted",
                     !.encrypted = encryptBufferWithDerivedKeys(
                                       symCall.plaintext \o symCall.footer, symCall.keys)]
    /\ UNCHANGED <<pemCall, rsaCall, kdfCall, sigCall,
                 asymCall, certCall, fileCall>>

CallDecryptBuffer ==
    /\ symCall.pc = "encrypted"
    /\ symCall.encrypted.t = "buffer"
    /\ symCall' = [symCall EXCEPT
                     !.pc = "decrypted",
                     !.decrypted = decryptBufferWithDerivedKeys(symCall.encrypted.v,
                                                                symCall.keys)]
    /\ UNCHANGED <<pemCall, rsaCall, kdfCall, sigCall,
                 asymCall, certCall, fileCall>>

CallRemovePadding ==
    /\ symCall.pc = "decrypted"
    /\ symCall.decrypted.t = "buffer"
    /\ symCall' = [symCall EXCEPT
                     !.pc = "stripped",
                     !.stripped = removePadding(symCall.decrypted.v)]
    /\ UNCHANGED <<pemCall, rsaCall, kdfCall, sigCall,
                 asymCall, certCall, fileCall>>

CallRemovePaddingOnBuffer ==
    /\ symCall.pc = "raw"
    /\ symCall' = [symCall EXCEPT
                     !.pc = "rawStripped",
                     !.stripped = removePadding(symCall.buffer)]
    /\ UNCHANGED <<pemCall, rsaCall, kdfCall, sigCall,
                 asymCall, certCall, fileCall>>

NextSym ==
    \/ CallComputePaddingFooter
    \/ CallEncryptBuffer
    \/ CallDecryptBuffer
    \/ CallRemovePadding
    \/ CallRemovePaddingOnBuffer

SpecSym == InitSym /\ [][NextSym]_vars

\* a key set whose lengths are those its algorithm implies: the cipher's
\* block size, and the key length of aes-128-cbc or aes-256-cbc
LengthsOfAlgorithm(keys) ==
    /\ keys.algorithm \in {"aes-128-cbc", "aes-256-cbc"}
    /\ keys.encryptingBlockSize = AesBlockSize
    /\ keys.encryptingKeyLength = AesKeyLength(keys.algorithm)

C8_PaddingFooter ==
    symCall.pc \in {"footer", "encrypted", "decrypted", "stripped"} =>
        LET L == Len(symCall.plaintext)
            B == symCall.keys.encryptingBlockSize
            paddingLength == B - ((L + 1) % B)
        IN  paddingLength <= 255 =>
                /\ Len(symCall.footer) = paddingLength + 1
                /\ \A i \in 1..Len(symCall.footer) : symCall.footer[i] = paddingLength

\* footers of the shortest and of the longest kind for a block size of 16
C8_Witness ==
    /\ symCall.pc = "footer"
    /\ symCall.keys.encryptingBlockSize = 16
    /\ \/ Len(symCall.plaintext) = 30 /\ symCall.footer = <<1, 1>>
       \/ Len(symCall.plaintext) = 31 /\ Len(symCall.footer) = 17

\* C9: removePadding.  For every non-empty buffer whose last byte has the
\* value v, removePadding returns the buffer without its final v + 1
\* bytes, i.e. its first length - (v + 1) bytes; when v + 1 is greater
\* than the length nothing of the buffer remains.
C9_RemovePadding ==
    (symCall.pc = "rawStripped" /\ Len(symCall.buffer) > 0) =>
        LET v == symCall.buffer[Len(symCall.buffer)]
            kept == Max(Len(symCall.buffer) - (v + 1), 0)
        IN  symCall.stripped = Buf(SubSeq(symCall.buffer, 1, kept))

\* removePadding as the code gives it: the claim's result whenever the
\* buffer holds at least v + 1 bytes
RemovePaddingWithinBuffer ==
    (/\ symCall.pc = "rawStripped"
     /\ Len(symCall.buffer) > 0
     /\ symCall.buffer[Len(symCall.buffer)] + 1 <= Len(symCall.buffer))
        => symCall.stripped
               = Buf(SubSeq(symCall.buffer, 1,
                            Len(symCall.buffer) - symCall.buffer[Len(symCall.buffer)] - 1))

(***************************************************************************)
(* makeMessageChunkSignatureWithDerivedKeys and                            *)
(* verifyChunkSignatureWithDerivedKeys.                                    *)
(*                                                                         *)
(* The assert of line 740 holds an assignment, signature.length =          *)
(* derivedKeys.signatureLength: it fails only when signatureLength is      *)
(* falsy (0), and what the assignment does to the buffer depends on the    *)
(* runtime.  Where a buffer's length is a read-only accessor the buffer    *)
(* is unchanged; where it is a plain property (lengthWritable) the buffer  *)
(* from then on reports signatureLength bytes: the digest cut short, or    *)
(* the digest followed by whatever memory lies behind it (garbage).        *)
(***************************************************************************)
Resized(digest, n, garbage) ==
    [i \in 1..n |-> IF i <= Len(digest) THEN digest[i] ELSE garbage]

makeMessageChunkSignatureWithDerivedKeys(message, derivedKeys, lengthWritable, garbage) ==
    LET signature == HMAC_SHA1(derivedKeys.signingKey, message)
    IN  IF derivedKeys.signatureLength = 0 THEN Err
        ELSE IF lengthWritable
             THEN Buf(Resized(signature, derivedKeys.signatureLength, garbage))
        ELSE Buf(signature)

\* "true", "false", or "error" when the signature cannot be recomputed;
\* equal hex strings are equal bytes
verifyChunkSignatureWithDerivedKeys(chunk, derivedKeys, lengthWritable, garbage) ==
    LET message == Slice(chunk, 0, Len(chunk) - derivedKeys.signatureLength)
        signature == SliceFrom(chunk, Len(chunk) - derivedKeys.signatureLength)
        verif == makeMessageChunkSignatureWithDerivedKeys(message, derivedKeys,
                                                          lengthWritable, garbage)
    IN  IF verif.t = "error" THEN "error"
        ELSE IF verif.v = signature THEN "true" ELSE "false"

(***************************************************************************)
(* Calls of the derived-key signature: a message is signed, the chunk      *)
(* message ++ signature is verified, as it is or with one bit changed.     *)
(***************************************************************************)
\* signature lengths a key set may carry: none, shorter than the SHA1
\* digest, the digest's, longer (32, the length of a SHA256 signature)
SignatureLengths == {0, 16, DigestLen, 32}

SigKeySets ==
    {computeDerivedKeys([i \in 1..20 |-> 0], [i \in 1..20 |-> 1],
                        [Basic128Rsa15 EXCEPT !.signatureLength = n]) : n \in SignatureLengths}

GarbageBytes == {0, 255}

\* the bits of a byte a transmission error may change in the model
FlippedBits == {0, 7}

FlipBit(byte, bit) ==
    IF (byte \div (2 ^ bit)) % 2 = 1 THEN byte - 2 ^ bit ELSE byte + 2 ^ bit

InitSig ==
    /\ sigCall \in [pc : {"start"}, keys : SigKeySets, lengthWritable : BOOLEAN,
                    message : SeqsUpTo({0, 255}, MaxMsgLen),
                    signature : {Undefined}, chunk : {<<>>},
                    flipped : {0}, valid : {"undefined"}]
    /\ pemCall = Idle
    /\ rsaCall = Idle
    /\ kdfCall = Idle
    /\ symCall = Idle
    /\ asymCall = Idle
    /\ certCall = Idle
    /\ fileCall = Idle

CallMakeSignature ==
    /\ sigCall.pc = "start"
    /\ \E garbage \in GarbageBytes :
          LET signature == makeMessageChunkSignatureWithDerivedKeys(
                               sigCall.message, sigCall.keys, sigCall.lengthWritable, garbage)
          IN  sigCall' = [sigCall EXCEPT
                            !.pc = "signed",
                            !.signature = signature,
                            !.chunk = IF signature.t = "buffer"
                                      THEN sigCall.message \o signature.v ELSE <<>>]
    /\ UNCHANGED <<pemCall, rsaCall, kdfCall, symCall,
                 asymCall, certCall, fileCall>>

\* one bit of the chunk changes on the way (flipped: the byte's position)
FlipOneBit ==
    /\ sigCall.pc = "signed"
    /\ sigCall.signature.t = "buffer"
    /\ \E pos \in 1..Len(sigCall.chunk), bit \in FlippedBits :
          sigCall' = [sigCall EXCEPT
                        !.pc = "tampered",
                        !.flipped = pos,
                        !.chunk = [sigCall.chunk EXCEPT ![pos] = FlipBit(@, bit)]]
    /\ UNCHANGED <<pemCall, rsaCall, kdfCall, symCall,
                 asymCall, certCall, fileCall>>

CallVerifySignature ==
    /\ sigCall.pc \in {"signed", "tampered"}
    /\ sigCall.signature.t = "buffer"
    /\ \E garbage \in GarbageBytes :
          sigCall' = [sigCall EXCEPT
                        !.pc = "verified",
                        !.valid = verifyChunkSignatureWithDerivedKeys(
                                      sigCall.chunk, sigCall.keys,
                                      sigCall.lengthWritable, garbage)]
    /\ UNCHANGED <<pemCall, rsaCall, kdfCall, symCall,
                 asymCall, certCall, fileCall>>

NextSig == CallMakeSignature \/ FlipOneBit \/ CallVerifySignature

SpecSig == InitSig /\ [][NextSig]_vars

\* C4: derived-key signature round-trip.  For every message and every
\* derived key set, verifyChunkSignatureWithDerivedKeys(message ++
\* makeMessageChunkSignatureWithDerivedKeys(message, keys), keys) is true,
\* and with any single bit of the message part or of the signature part
\* changed it is false.
C4_SignatureRoundTrip ==
    sigCall.pc = "verified" =>
        sigCall.valid = IF sigCall.flipped = 0 THEN "true" ELSE "false"

\* The round trip as far as the code gives it: with a signatureLength of
\* the digest's length the chunk verifies, and does not with a bit changed.
SignatureRoundTripAtDigestLength ==
    sigCall.keys.signatureLength = DigestLen =>
        /\ sigCall.pc = "signed" => sigCall.signature.t = "buffer"
        /\ sigCall.pc = "verified" =>
               sigCall.valid = IF sigCall.flipped = 0 THEN "true" ELSE "false"

\* C10: the signature returned by makeMessageChunkSignatureWithDerivedKeys
\* is the HMAC-SHA1 of the message under derivedKeys.signingKey and its
\* length is derivedKeys.signatureLength; a key set whose signatureLength
\* differs from the length of the computed digest is rejected by the
\* assertion and yields no signature.
C10_SignatureLength ==
    sigCall.pc = "signed" =>
        IF sigCall.keys.signatureLength = DigestLen
        THEN /\ sigCall.signature = Buf(HMAC_SHA1(sigCall.keys.signingKey, sigCall.message))
             /\ Len(sigCall.signature.v) = sigCall.keys.signatureLength
        ELSE sigCall.signature.t = "error"

\* What the code gives: the HMAC-SHA1 of the message whenever signatureLength
\* is the digest's length, and a rejection only of a signatureLength of 0.
SignatureAtDigestLength ==
    sigCall.pc = "signed" =>
        /\ sigCall.keys.signatureLength = DigestLen =>
               sigCall.signature = Buf(HMAC_SHA1(sigCall.keys.signingKey, sigCall.message))
        /\ sigCall.signature.t = "error" <=> sigCall.keys.signatureLength = 0

(***************************************************************************)
(* The asymmetric backend: what the module finds when it is loaded (the    *)
(* padding constants, the ursa package, crypto.publicEncrypt), the         *)
(* selection of publicEncrypt / privateDecrypt made at load, and the       *)
(* exported operations as a caller reaches them.                           *)
(*                                                                         *)
(* An environment is [constants, ursa, native]: whether the padding        *)
(* constants are defined, whether require("ursa") succeeds, and whether    *)
(* crypto has a publicEncrypt of its own.  A padding constant is named,    *)
(* not numbered; NoValue is JavaScript's undefined in its place.           *)
(***************************************************************************)
PKCS1_PADDING == "RSA_PKCS1_PADDING"

NO_PADDING == "RSA_NO_PADDING"

PKCS1_OAEP_PADDING == "RSA_PKCS1_OAEP_PADDING"

Environments == [constants : BOOLEAN, ursa : BOOLEAN, native : BOOLEAN]

\* exports.RSA_PKCS1_PADDING and exports.RSA_PKCS1_OAEP_PADDING
RSA_PKCS1_PADDING(env) == IF env.constants THEN PKCS1_PADDING ELSE NoValue

RSA_PKCS1_OAEP_PADDING(env) == IF env.constants THEN PKCS1_OAEP_PADDING ELSE NoValue

\* the library whose constants are exported: those of require('constants'),
\* overwritten by those of ursa when ursa was found
ExportedPaddingFrom(env) == IF env.ursa THEN "ursa" ELSE "constants"

\* the thrown values told apart by the caller
MissingCrypto == [t |-> "error", v |-> <<>>, message |-> "Missing crypto"]

NotAFunction == [t |-> "error", v |-> <<>>, message |-> "TypeError: object is not a function"]

AssertionError == [t |-> "error", v |-> <<>>, message |-> "AssertionError"]

isFullySupported(env) ==
    LET has_RSA == RSA_PKCS1_OAEP_PADDING(env) # NoValue /\ RSA_PKCS1_PADDING(env) # NoValue
    IN  has_RSA /\ (env.ursa \/ env.native)

\* ensure_crypto_installed that tells the callback and throws as well
ensure_crypto_installed_AlsoThrows(env, optional_callback) ==
    IF ~isFullySupported(env)
    THEN [returned |-> "nothing", thrown |-> MissingCrypto,
          callbackCalls |-> IF optional_callback THEN <<MissingCrypto>> ELSE <<>>]
    ELSE [returned |-> "true", thrown |-> Undefined, callbackCalls |-> <<>>]

\* optional_callback: TRUE when a callback is given.  The outcome is what
\* the call returned, what it threw, and the arguments of the calls of the
\* callback in order.
ensure_crypto_installed(env, optional_callback) ==
    IF ~isFullySupported(env)
    THEN IF optional_callback
         THEN [returned |-> "false", thrown |-> Undefined, callbackCalls |-> <<MissingCrypto>>]
         ELSE [returned |-> "nothing", thrown |-> MissingCrypto, callbackCalls |-> <<>>]
    ELSE [returned |-> "true", thrown |-> Undefined, callbackCalls |-> <<>>]

\* var publicEncrypt after the module is loaded
SelectBackend(env) ==
    IF ~isFullySupported(env) THEN "null"
    ELSE IF env.native THEN "native" ELSE "ursa"

\* var privateDecrypt after the module is loaded
SelectPrivateDecrypt(env) ==
    IF ~isFullySupported(env) THEN "null"
    ELSE IF env.native THEN "native" ELSE "ursa"

\* algorithm = algorithm || crypto_utils.RSA_PKCS1_PADDING and the assert
\* that follows it
AlgorithmAccepted(env, algorithm) ==
    LET a == IF algorithm # NoValue THEN algorithm ELSE RSA_PKCS1_PADDING(env)
    IN  a = RSA_PKCS1_PADDING(env) \/ a = RSA_PKCS1_OAEP_PADDING(env)

\* exports.publicEncrypt(buffer, public_key, algorithm): the function
\* selected at load, or null
exports_publicEncrypt(env, backend, buffer, public_key, algorithm) ==
    IF backend = "null" THEN NotAFunction
    ELSE IF ~AlgorithmAccepted(env, algorithm) THEN AssertionError
    ELSE IF backend = "ursa" /\ ~env.ursa THEN AssertionError
    ELSE publicEncrypt(buffer, public_key)

exports_privateDecrypt(env, backend, buffer, private_key, algorithm) ==
    IF backend = "null" THEN NotAFunction
    ELSE IF ~AlgorithmAccepted(env, algorithm) THEN AssertionError
    ELSE IF backend = "ursa" /\ ~env.ursa THEN AssertionError
    ELSE privateDecrypt(buffer, private_key)

\* exports.publicEncrypt_long: the assert on the algorithm and the call of
\* ensure_crypto_installed come before the loop over the blocks
exports_publicEncrypt_long(env, backend, buffer, key, block_size, padding, algorithm) ==
    IF ~AlgorithmAccepted(env, algorithm) THEN AssertionError
    ELSE IF ensure_crypto_installed(env, FALSE).thrown # Undefined
         THEN ensure_crypto_installed(env, FALSE).thrown
    ELSE publicEncrypt_long(buffer, key, block_size, padding)

exports_privateDecrypt_long(env, backend, buffer, key, block_size, algorithm) ==
    IF ~AlgorithmAccepted(env, algorithm) THEN AssertionError
    ELSE IF ensure_crypto_installed(env, FALSE).thrown # Undefined
         THEN ensure_crypto_installed(env, FALSE).thrown
    ELSE privateDecrypt_long(buffer, key, block_size)

(***************************************************************************)
(* Calls of the backend: the module is loaded in some environment, then    *)
(* one exported operation is called.                                       *)
(***************************************************************************)
AsymBuffers == SeqsUpTo(RsaBytes, 2)

AsymKey == [id |-> 1, size |-> MaxBlockSize]

\* the algorithm argument: omitted, the two constants, another padding
AsymAlgorithms == {NoValue, PKCS1_PADDING, PKCS1_OAEP_PADDING, NO_PADDING}

InitAsym ==
    /\ asymCall \in [pc : {"loading"}, env : Environments, backend : {"unset"},
                     privateBackend : {"unset"}, paddingFrom : {"unset"},
                     op : {"none"}, algorithm : {NoValue}, result : {Undefined},
                     callback : {FALSE}, outcome : {Undefined}]
    /\ pemCall = Idle
    /\ rsaCall = Idle
    /\ kdfCall = Idle
    /\ symCall = Idle
    /\ sigCall = Idle
    /\ certCall = Idle
    /\ fileCall = Idle

LoadModule ==
    /\ asymCall.pc = "loading"
    /\ asymCall' = [asymCall EXCEPT !.pc = "loaded",
                                    !.paddingFrom = ExportedPaddingFrom(asymCall.env),
                                    !.backend = SelectBackend(asymCall.env),
                                    !.privateBackend = SelectPrivateDecrypt(asymCall.env)]
    /\ UNCHANGED <<pemCall, rsaCall, kdfCall, symCall, sigCall, certCall, fileCall>>

ExportsPublicEncrypt ==
    /\ asymCall.pc = "loaded"
    /\ \E buffer \in AsymBuffers, algorithm \in AsymAlgorithms :
          asymCall' = [asymCall EXCEPT
                         !.pc = "called", !.op = "publicEncrypt", !.algorithm = algorithm,
                         !.result = exports_publicEncrypt(asymCall.env, asymCall.backend,
                                                          buffer, AsymKey, algorithm)]
    /\ UNCHANGED <<pemCall, rsaCall, kdfCall, symCall, sigCall, certCall, fileCall>>

ExportsPrivateDecrypt ==
    /\ asymCall.pc = "loaded"
    /\ \E buffer \in AsymBuffers, algorithm \in AsymAlgorithms :
          asymCall' = [asymCall EXCEPT
                         !.pc = "called", !.op = "privateDecrypt", !.algorithm = algorithm,
                         !.result = exports_privateDecrypt(
                                        asymCall.env, asymCall.privateBackend,
                                        publicEncrypt(buffer, AsymKey).v, AsymKey, algorithm)]
    /\ UNCHANGED <<pemCall, rsaCall, kdfCall, symCall, sigCall, certCall, fileCall>>

ExportsPublicEncryptLong ==
    /\ asymCall.pc = "loaded"
    /\ \E buffer \in AsymBuffers, algorithm \in AsymAlgorithms :
          asymCall' = [asymCall EXCEPT
                         !.pc = "called", !.op = "publicEncrypt_long", !.algorithm = algorithm,
                         !.result = exports_publicEncrypt_long(
                                        asymCall.env, asymCall.backend, buffer, AsymKey,
                                        AsymKey.size, RsaOverhead, algorithm)]
    /\ UNCHANGED <<pemCall, rsaCall, kdfCall, symCall, sigCall, certCall, fileCall>>

ExportsPrivateDecryptLong ==
    /\ asymCall.pc = "loaded"
    /\ \E buffer \in AsymBuffers, algorithm \in AsymAlgorithms :
          asymCall' = [asymCall EXCEPT
                         !.pc = "called", !.op = "privateDecrypt_long", !.algorithm = algorithm,
                         !.result = exports_privateDecrypt_long(
                                        asymCall.env, asymCall.backend,
                                        publicEncrypt(buffer, AsymKey).v, AsymKey,
                                        AsymKey.size, algorithm)]
    /\ UNCHANGED <<pemCall, rsaCall, kdfCall, symCall, sigCall, certCall, fileCall>>

CallEnsureCryptoInstalled ==
    /\ asymCall.pc = "loaded"
    /\ \E optional_callback \in BOOLEAN :
          asymCall' = [asymCall EXCEPT
                         !.pc = "called", !.op = "ensure_crypto_installed",
                         !.callback = optional_callback,
                         !.outcome = ensure_crypto_installed(asymCall.env, optional_callback)]
    /\ UNCHANGED <<pemCall, rsaCall, kdfCall, symCall, sigCall, certCall, fileCall>>

NextAsym ==
    \/ LoadModule
    \/ ExportsPublicEncrypt
    \/ ExportsPrivateDecrypt
    \/ ExportsPublicEncryptLong
    \/ ExportsPrivateDecryptLong
    \/ CallEnsureCryptoInstalled

SpecAsym == InitAsym /\ [][NextAsym]_vars

AsymOperations == {"publicEncrypt", "privateDecrypt", "publicEncrypt_long", "privateDecrypt_long"}

\* C11: when no asymmetric backend is available (isFullySupported() is
\* false at load), every asymmetric operation of the module, publicEncrypt,
\* privateDecrypt, publicEncrypt_long and privateDecrypt_long, called with
\* an algorithm the module accepts, fails with the "Missing crypto" error
\* and never on a null function reference.
C11_FailFastWhenUnsupported ==
    (/\ asymCall.pc = "called"
     /\ asymCall.op \in AsymOperations
     /\ ~isFullySupported(asymCall.env)
     /\ AlgorithmAccepted(asymCall.env, asymCall.algorithm))
        => asymCall.result = MissingCrypto

\* What the code gives: the two chunked operations fail with "Missing
\* crypto"; publicEncrypt and privateDecrypt are null and calling them is a
\* TypeError.
LongOperationsFailFast ==
    (/\ asymCall.pc = "called"
     /\ ~isFullySupported(asymCall.env)
     /\ AlgorithmAccepted(asymCall.env, asymCall.algorithm))
        => /\ asymCall.op \in {"publicEncrypt_long", "privateDecrypt_long"}
                => asymCall.result = MissingCrypto
           /\ asymCall.op \in {"publicEncrypt", "privateDecrypt"}
                => asymCall.result = NotAFunction

\* C12: ensure_crypto_installed.  Capability absent and a callback given:
\* the callback is called exactly once, with the Error, nothing is thrown
\* and false is returned.  Capability absent and no callback: the Error is
\* thrown.  Capability present: true is returned and the callback is never
\* called.
C12_EnsureCryptoInstalled ==
    (asymCall.pc = "called" /\ asymCall.op = "ensure_crypto_installed") =>
        LET o == asymCall.outcome
        IN  IF isFullySupported(asymCall.env)
            THEN o.returned = "true" /\ o.thrown = Undefined /\ o.callbackCalls = <<>>
            ELSE IF asymCall.callback
                 THEN /\ o.callbackCalls = <<MissingCrypto>>
                      /\ o.thrown = Undefined
                      /\ o.returned = "false"
                 ELSE /\ o.thrown = MissingCrypto
                      /\ o.callbackCalls = <<>>

\* the capability was absent and the failure went to the callback
C12_Witness ==
    /\ asymCall.pc = "called"
    /\ asymCall.op = "ensure_crypto_installed"
    /\ ~isFullySupported(asymCall.env)
    /\ asymCall.callback
    /\ asymCall.outcome.returned = "false"
    /\ Len(asymCall.outcome.callbackCalls) = 1


\* the library whose padding constants a backend takes: crypto's own
\* functions take those of require('constants'), ursa's keys take ursa's
LibraryOf(backend) == IF backend = "native" THEN "constants" ELSE "ursa"

\* C24: after the module is loaded, in every environment (crypto's own
\* publicEncrypt only, ursa only, both, neither), publicEncrypt and
\* privateDecrypt are bound to the same backend, they are non-null exactly
\* when isFullySupported() is true, and the exported padding constants are
\* those of the backend that was selected.
C24_BackendConsistency ==
    asymCall.pc # "loading" =>
        /\ asymCall.backend = asymCall.privateBackend
        /\ asymCall.backend # "null" <=> isFullySupported(asymCall.env)
        /\ asymCall.backend # "null"
               => asymCall.paddingFrom = LibraryOf(asymCall.backend)

\* What the code gives: the two functions are bound to the same backend and
\* are non-null exactly when isFullySupported() is true; the exported
\* constants are those of the selected backend except when ursa and
\* crypto's own publicEncrypt are both there, where the constants are
\* ursa's and the functions are crypto's.
BackendConsistencyExceptBoth ==
    asymCall.pc # "loading" =>
        /\ asymCall.backend = asymCall.privateBackend
        /\ asymCall.backend # "null" <=> isFullySupported(asymCall.env)
        /\ (asymCall.backend # "null" /\ ~(asymCall.env.ursa /\ asymCall.env.native))
               => asymCall.paddingFrom = LibraryOf(asymCall.backend)
        /\ (asymCall.backend # "null" /\ asymCall.env.ursa /\ asymCall.env.native)
               => asymCall.paddingFrom = "ursa" /\ asymCall.backend = "native"

(***************************************************************************)
(* Calls of computeDerivedKeys with every kind of algorithm option, each   *)
(* followed by the first use of the key set, derivedKeys_algorithm.        *)
(***************************************************************************)
\* the two supported names, two names of other ciphers, the empty string,
\* and no string at all
AlgorithmOptions == {"aes-128-cbc", "aes-256-cbc", "aes-192-cbc", "des-cbc", "", NoValue}

SupportedAlgorithms == {"aes-128-cbc", "aes-256-cbc"}

KdfAlgOptions ==
    {[o EXCEPT !.algorithm = a] : o \in {Basic128Rsa15, Basic256}, a \in AlgorithmOptions}

InitKdfAlg ==
    /\ kdfCall \in [pc : {"algStart"}, secret : Secrets, seed : Seeds,
                    options : KdfAlgOptions, keys : {Undefined}, used : {"unused"}]
    /\ pemCall = Idle
    /\ rsaCall = Idle
    /\ symCall = Idle
    /\ sigCall = Idle
    /\ asymCall = Idle
    /\ certCall = Idle
    /\ fileCall = Idle

CallComputeDerivedKeysWithAlgorithm ==
    /\ kdfCall.pc = "algStart"
    /\ kdfCall' = [kdfCall EXCEPT
                     !.pc = "algDerived",
                     !.keys = computeDerivedKeys(kdfCall.secret, kdfCall.seed,
                                                 kdfCall.options)]
    /\ UNCHANGED <<pemCall, rsaCall, symCall, sigCall, asymCall, certCall, fileCall>>

CallDerivedKeysAlgorithm ==
    /\ kdfCall.pc = "algDerived"
    /\ kdfCall.keys # Err
    /\ kdfCall' = [kdfCall EXCEPT !.pc = "algUsed",
                                  !.used = derivedKeys_algorithm(kdfCall.keys)]
    /\ UNCHANGED <<pemCall, rsaCall, symCall, sigCall, asymCall, certCall, fileCall>>

NextKdfAlg == CallComputeDerivedKeysWithAlgorithm \/ CallDerivedKeysAlgorithm

SpecKdfAlg == InitKdfAlg /\ [][NextKdfAlg]_vars

\* C13: computeDerivedKeys accepts only the algorithms aes-128-cbc and
\* aes-256-cbc: for any other algorithm value it fails and returns no key
\* set, so that no key set carrying an unsupported algorithm is produced.
C13_OnlySupportedAlgorithms ==
    kdfCall.pc = "algDerived" =>
        IF kdfCall.options.algorithm \in SupportedAlgorithms
        THEN kdfCall.keys # Err /\ kdfCall.keys.algorithm = kdfCall.options.algorithm
        ELSE kdfCall.keys = Err

\* What the code gives: computeDerivedKeys rejects only an algorithm that
\* is no string; another cipher's name is rejected when the key set is
\* first used, and the empty string is taken for aes-128-cbc there.
AlgorithmCheckedAtUse ==
    /\ kdfCall.pc = "algDerived" =>
           (kdfCall.keys = Err <=> kdfCall.options.algorithm = NoValue)
    /\ kdfCall.pc = "algUsed" =>
           kdfCall.used = IF kdfCall.options.algorithm \in SupportedAlgorithms
                          THEN kdfCall.options.algorithm
                          ELSE IF kdfCall.options.algorithm = "" THEN "aes-128-cbc"
                          ELSE "error"

(***************************************************************************)
(* exploreCertificate.  A certificate is held parsed, as [form, n, id]:    *)
(* form is "der" for a Buffer and "pem" for a string, n is the RSA modulus *)
(* of its public key as big-endian bytes without leading zero bytes, id    *)
(* names the key pair.  The X509 reader hands out the modulus as           *)
(* subjectPublicKeyRSA_hN, the hexadecimal text of the content of its DER  *)
(* INTEGER: DER puts one zero byte in front of a positive number whose     *)
(* first byte has its high bit set, and none otherwise.                    *)
(***************************************************************************)
DerInteger(n) == IF n[1] >= 128 THEN <<0>> \o n ELSE n

\* the character code of a hexadecimal digit, 0-9 and a-f
HexDigit(d) == IF d < 10 THEN 48 + d ELSE 87 + d

\* two hexadecimal digits for every byte
Hex(bytes) ==
    [k \in 1..(2 * Len(bytes)) |->
        IF k % 2 = 1 THEN HexDigit(bytes[(k + 1) \div 2] \div 16)
        ELSE HexDigit(bytes[k \div 2] % 16)]

\* certificate instanceof Buffer ? toPem(certificate, "CERTIFICATE")
CertificateToPem(certificate) ==
    IF certificate.form = "der" THEN [certificate EXCEPT !.form = "pem"] ELSE certificate

\* x509.readCertPEM(pem); x509.subjectPublicKeyRSA_hN
subjectPublicKeyRSA_hN(senderCertificatePem) == Hex(DerInteger(senderCertificatePem.n))

\* exploreCertificate taking the length of the hexadecimal text alone,
\* without the byte it takes off for a leading zero
exploreCertificate_NoLeadingZero(certificate) ==
    LET senderCertificatePem == CertificateToPem(certificate)
        publicKeyLength == Len(subjectPublicKeyRSA_hN(senderCertificatePem)) \div 2
    IN  IF publicKeyLength = 256 \/ publicKeyLength = 128
        THEN [publicKeyLength |-> publicKeyLength]
        ELSE Err

\* the data returned (its publicKeyLength; the validity dates are left
\* out), or Err when the assert fails
exploreCertificate(certificate) ==
    LET senderCertificatePem == CertificateToPem(certificate)
        publicKeyLength == (Len(subjectPublicKeyRSA_hN(senderCertificatePem)) \div 2) - 1
    IN  IF publicKeyLength = 256 \/ publicKeyLength = 128
        THEN [publicKeyLength |-> publicKeyLength]
        ELSE Err

(***************************************************************************)
(* verifyMessageChunkSignature and verifyChunkSignature.  The library's    *)
(* RSA signature is modelled by a checksum of the signed block under the   *)
(* key pair and the algorithm, as long as the modulus: verify accepts      *)
(* exactly the bytes the matching private key would have produced.         *)
(***************************************************************************)
RsaSign(block, algorithm, key) ==
    [i \in 1..Len(key.n) |->
        (ByteSum(block, 1, Len(block)) + 7 * i + key.id
            + (IF algorithm = "RSA-SHA256" THEN 1 ELSE 0)) % 256]

\* "true" or "false", or "error" when an assert fails
verifyMessageChunkSignature(block_to_verify, signature, options) ==
    IF options.publicKey.form # "pem" THEN "error"
    ELSE IF signature = RsaSign(block_to_verify, options.algorithm, options.publicKey)
         THEN "true" ELSE "false"

\* verifyChunkSignature asking the certificate even when the options name
\* a signature length
verifyChunkSignature_CertificateOnly(chunk, options) ==
    LET cert == exploreCertificate(options.publicKey)
    IN  IF cert = Err THEN Err
        ELSE LET signatureLength == cert.publicKeyLength
                 block_to_verify == Slice(chunk, 0, Len(chunk) - signatureLength)
                 signature == SliceFrom(chunk, Len(chunk) - signatureLength)
             IN  [block_to_verify |-> block_to_verify, signature |-> signature,
                  result |-> verifyMessageChunkSignature(block_to_verify, signature, options)]

\* options.signatureLength is 0 when the options name none (undefined and
\* 0 are the values !signatureLength takes for absent).  The outcome holds
\* the two buffers passed to verifyMessageChunkSignature and what it
\* returned; Err when exploreCertificate fails.
verifyChunkSignature(chunk, options) ==
    LET cert == IF options.signatureLength = 0 THEN exploreCertificate(options.publicKey)
                ELSE [publicKeyLength |-> options.signatureLength]
    IN  IF cert = Err THEN Err
        ELSE LET signatureLength == cert.publicKeyLength
                 block_to_verify == Slice(chunk, 0, Len(chunk) - signatureLength)
                 signature == SliceFrom(chunk, Len(chunk) - signatureLength)
             IN  [block_to_verify |-> block_to_verify, signature |-> signature,
                  result |-> verifyMessageChunkSignature(block_to_verify, signature, options)]

(***************************************************************************)
(* Calls on certificates: exploreCertificate on a certificate, or          *)
(* verifyChunkSignature on a chunk and the options of a verifier.          *)
(***************************************************************************)
\* a modulus of len bytes that starts with the byte top
Modulus(len, top) == [i \in 1..len |-> IF i = 1 THEN top ELSE 171]

\* moduli of 1024 and 2048 bits, of a byte less and a byte more, each with
\* the first byte's high bit set and clear
ModulusLengths == {127, 128, 129, 255, 256, 257}

Certificates ==
    [form : {"der", "pem"},
     n : {Modulus(len, top) : len \in ModulusLengths, top \in {127, 128}},
     id : {1}]

\* the certificates a verifier is given
SignerCertificates ==
    [form : {"der", "pem"},
     n : {Modulus(128, 128), Modulus(256, 128), Modulus(128, 127), Modulus(129, 127)},
     id : {1, 2}]

SignedMessages == {<<>>, <<1>>, <<1, 2>>}

\* the chunks a verifier receives: a message and its signature, the same
\* with the first or the last byte changed, and a chunk with no signature
Chunks(key, algorithm) ==
    LET signed == {m \o RsaSign(m, algorithm, key) : m \in SignedMessages}
    IN  signed
            \cup {[c EXCEPT ![1] = (@ + 1) % 256] : c \in signed}
            \cup {[c EXCEPT ![Len(c)] = (@ + 1) % 256] : c \in signed}
            \cup {<<1, 2>>}

SuppliedSignatureLengths == {0, 4, 128, 256}

InitCert ==
    /\ \/ certCall \in [pc : {"exploreStart"}, certificate : Certificates,
                        data : {Undefined}]
       \/ \E key \in SignerCertificates, signer \in {1, 2} :
             certCall \in [pc : {"verifyStart"},
                           chunk : Chunks([key EXCEPT !.id = signer], "RSA-SHA1"),
                           options : [signatureLength : SuppliedSignatureLengths,
                                      algorithm : {"RSA-SHA1"}, publicKey : {key}],
                           outcome : {Undefined}]
    /\ pemCall = Idle
    /\ rsaCall = Idle
    /\ kdfCall = Idle
    /\ symCall = Idle
    /\ sigCall = Idle
    /\ asymCall = Idle
    /\ fileCall = Idle

CallExploreCertificate ==
    /\ certCall.pc = "exploreStart"
    /\ certCall' = [certCall EXCEPT !.pc = "explored",
                                    !.data = exploreCertificate(certCall.certificate)]
    /\ UNCHANGED <<pemCall, rsaCall, kdfCall, symCall, sigCall, asymCall, fileCall>>

CallVerifyChunkSignature ==
    /\ certCall.pc = "verifyStart"
    /\ certCall' = [certCall EXCEPT
                      !.pc = "verified",
                      !.outcome = verifyChunkSignature(certCall.chunk, certCall.options)]
    /\ UNCHANGED <<pemCall, rsaCall, kdfCall, symCall, sigCall, asymCall, fileCall>>

NextCert == CallExploreCertificate \/ CallVerifyChunkSignature

SpecCert == InitCert /\ [][NextCert]_vars

\* C14: exploreCertificate either fails or returns a publicKeyLength of 128
\* or 256: for a certificate whose RSA modulus is not 128 or 256 bytes long
\* it fails, and for a certificate whose modulus is 128 (256) bytes long it
\* returns 128 (256), whether or not the modulus is encoded with a leading
\* zero byte.
C14_PublicKeyLength ==
    certCall.pc = "explored" =>
        LET length == Len(certCall.certificate.n)
        IN  IF length \in {128, 256}
            THEN certCall.data = [publicKeyLength |-> length]
            ELSE certCall.data = Err

\* What the code gives: a result is 128 or 256, and it is the length of the
\* modulus for every modulus whose first byte has its high bit set.
PublicKeyLengthOfFullModulus ==
    certCall.pc = "explored" =>
        /\ certCall.data # Err => certCall.data.publicKeyLength \in {128, 256}
        /\ certCall.certificate.n[1] >= 128 =>
               LET length == Len(certCall.certificate.n)
               IN  IF length \in {128, 256}
                   THEN certCall.data = [publicKeyLength |-> length]
                   ELSE certCall.data = Err

\* the signature length verifyChunkSignature is to use
SignatureLengthToUse(options) ==
    IF options.signatureLength = 0 THEN exploreCertificate(options.publicKey)
    ELSE [publicKeyLength |-> options.signatureLength]

\* C15: verifyChunkSignature.  When options.signatureLength is not supplied
\* the signature length is the publicKeyLength that exploreCertificate
\* returns for options.publicKey, otherwise it is the supplied value; in
\* both cases the last signatureLength bytes of the chunk are passed to
\* verifyMessageChunkSignature as the signature and the bytes before them
\* as the signed content, and its result is returned (for a chunk of at
\* least signatureLength bytes).
C15_VerifyChunkSignature ==
    certCall.pc = "verified" =>
        LET chunk == certCall.chunk
            use == SignatureLengthToUse(certCall.options)
        IN  IF use = Err THEN certCall.outcome = Err
            ELSE use.publicKeyLength <= Len(chunk) =>
                    LET content == SubSeq(chunk, 1, Len(chunk) - use.publicKeyLength)
                        signature == SubSeq(chunk, Len(chunk) - use.publicKeyLength + 1,
                                            Len(chunk))
                    IN  /\ certCall.outcome # Err
                        /\ certCall.outcome.block_to_verify = content
                        /\ certCall.outcome.signature = signature
                        /\ certCall.outcome.result =
                               verifyMessageChunkSignature(content, signature,
                                                           certCall.options)

\* a signed chunk was verified with the length taken from the certificate,
\* although the options of the call name another length for other chunks
C15_Witness ==
    /\ certCall.pc = "verified"
    /\ certCall.options.signatureLength = 0
    /\ Len(certCall.options.publicKey.n) = 256
    /\ Len(certCall.chunk) = 258
    /\ certCall.outcome # Err
    /\ Len(certCall.outcome.signature) = 256
    /\ certCall.outcome.result = "true"

\* a signed chunk was verified with the length the options supply, which
\* is not the length of the certificate's key
C15_WitnessSupplied ==
    /\ certCall.pc = "verified"
    /\ certCall.options.signatureLength = 128
    /\ Len(certCall.options.publicKey.n) = 256
    /\ certCall.outcome # Err
    /\ Len(certCall.outcome.signature) = 128

\* C26: the split of a chunk in verifyChunkSignature is a partition.  For
\* every chunk and every signature length s, s greater than the chunk's
\* length included, the message part followed by the signature part is the
\* chunk, the signature part has min(s, chunk length) bytes, and a chunk
\* shorter than s is not reported as valid.
C26_ChunkSplitPartition ==
    (certCall.pc = "verified" /\ certCall.outcome # Err) =>
        LET chunk == certCall.chunk
            s == SignatureLengthToUse(certCall.options).publicKeyLength
        IN  /\ certCall.outcome.block_to_verify \o certCall.outcome.signature = chunk
            /\ Len(certCall.outcome.signature) = Min(s, Len(chunk))
            /\ Len(chunk) < s => certCall.outcome.result # "true"

\* What the code gives: the two parts always make up the chunk, the two
\* slices counting a negative index from the end of the chunk.  A chunk of
\* more than half of s bytes and fewer than s gives a signature part of s
\* less the chunk's length bytes; a chunk of at most half of s bytes is
\* taken whole as the signature of the empty message, and is reported
\* valid when it is that signature.
ChunkSplitOfShortChunk ==
    (certCall.pc = "verified" /\ certCall.outcome # Err) =>
        LET chunk == certCall.chunk
            s == SignatureLengthToUse(certCall.options).publicKeyLength
        IN  /\ certCall.outcome.block_to_verify \o certCall.outcome.signature = chunk
            /\ Len(certCall.outcome.signature)
                   = IF s <= Len(chunk) THEN s
                     ELSE IF s < 2 * Len(chunk) THEN s - Len(chunk)
                     ELSE Len(chunk)
            /\ certCall.outcome.result
                   = verifyMessageChunkSignature(certCall.outcome.block_to_verify,
                                                 certCall.outcome.signature,
                                                 certCall.options)

\* a chunk of fewer bytes than the signature length in use is reported valid
ShortChunkReportedValid ==
    /\ certCall.pc = "verified"
    /\ certCall.outcome # Err
    /\ Len(certCall.chunk) < SignatureLengthToUse(certCall.options).publicKeyLength
    /\ certCall.outcome.result = "true"

\* a chunk whose signature part has neither s bytes nor all of the chunk's
ShortChunkSplitInside ==
    /\ certCall.pc = "verified"
    /\ certCall.outcome # Err
    /\ Len(certCall.chunk) < SignatureLengthToUse(certCall.options).publicKeyLength
    /\ Len(certCall.outcome.signature) < Len(certCall.chunk)

(***************************************************************************)
(* The envelope toPem writes, read line by line.                           *)
(***************************************************************************)
\* the body lines of a text whose first line is the header and whose last
\* two lines are the footer and the empty string after the final LF
BodyLines(text) ==
    LET a == SplitLines(text)
    IN  IF Len(a) < 3 THEN <<>> ELSE SubSeq(a, 2, Len(a) - 2)

\* text is an envelope of the label whose base64 body lines are all 64
\* characters long except the last, which has 1 to 64
IsWrappedEnvelope(text, label) ==
    LET a == SplitLines(text)
        body == BodyLines(text)
    IN  /\ Len(a) >= 3
        /\ a[1] = BEGIN_ \o label \o DASHES
        /\ a[Len(a) - 1] = END_ \o label \o DASHES
        /\ a[Len(a)] = <<>>
        /\ \A i \in 1..Len(body) :
              /\ \A k \in 1..Len(body[i]) : IsB64Char(body[i][k]) \/ body[i][k] = 61
              /\ IF i < Len(body) THEN Len(body[i]) = 64
                 ELSE Len(body[i]) >= 1 /\ Len(body[i]) <= 64

\* C16: toPem fails for every call whose requested type is not one of
\* CERTIFICATE, RSA PRIVATE KEY, PUBLIC KEY, whatever the input bytes are
\* (raw or already PEM); for an accepted call with raw input the result is
\* a BEGIN/END envelope of the requested type whose base64 body lines are
\* all exactly 64 characters long except the last.
C16_ToPemRequestedType ==
    pemCall.pc = "toPem" =>
        IF pemCall.type.v \notin PemLabels THEN pemCall.text = Err
        ELSE ~ Truthy(identifyPemType(pemCall.raw_key)) =>
                 /\ pemCall.text.t = "string"
                 /\ IsWrappedEnvelope(pemCall.text.v, pemCall.type.v)

\* What the code gives: the requested type is looked at for raw input only.
ToPemOfRawInput ==
    (pemCall.pc = "toPem" /\ ~ Truthy(identifyPemType(pemCall.raw_key))) =>
        IF pemCall.type.v \notin PemLabels THEN pemCall.text = Err
        ELSE /\ pemCall.text.t = "string"
             /\ IsWrappedEnvelope(pemCall.text.v, pemCall.type.v)

(***************************************************************************)
(* Calls of identifyPemType and readPEM on texts as they are found in      *)
(* files: envelopes with LF and CR LF line ends, and texts that are nearly *)
(* envelopes.                                                              *)
(***************************************************************************)
CRLF == <<13, 10>>

\* "Bag": a line of another kind, as tools write before a header
OtherLine == <<66, 97, 103>>

HeaderLine(label) == BEGIN_ \o label \o DASHES

FooterLine(label) == END_ \o label \o DASHES

\* the lines, each followed by the line end nl
RECURSIVE TextOfLines(_, _)
TextOfLines(lines, nl) ==
    IF Len(lines) = 0 THEN <<>>
    ELSE lines[1] \o nl \o TextOfLines(Tail(lines), nl)

\* base64 bodies of one short line, of one line with padding, and of two
\* lines (64 and 4 characters)
TextBodies ==
    {<<Base64Encode(<<0, 16, 131>>)>>,
     <<Base64Encode(<<65>>)>>,
     <<SubSeq(Base64Encode(LongBuffer(49)), 1, 64),
       SubSeq(Base64Encode(LongBuffer(49)), 65, 68)>>}

\* what a text is made of: an envelope, and what an envelope can lack or
\* have too much
TextShapes ==
    {"envelope", "mismatched", "noFooter", "lineBefore", "lineAfter",
     "noFinalLineEnd", "emptyBody", "twoEnvelopes", "raw"}

TextOfShape(shape, label, other, body, nl) ==
    LET envelope == <<HeaderLine(label)>> \o body \o <<FooterLine(label)>>
    IN  CASE shape = "envelope" -> TextOfLines(envelope, nl)
          [] shape = "mismatched" ->
                 TextOfLines(<<HeaderLine(label)>> \o body \o <<FooterLine(other)>>, nl)
          [] shape = "noFooter" -> TextOfLines(<<HeaderLine(label)>> \o body, nl)
          [] shape = "lineBefore" -> TextOfLines(<<OtherLine>> \o envelope, nl)
          [] shape = "lineAfter" -> TextOfLines(envelope \o <<OtherLine>>, nl)
          [] shape = "noFinalLineEnd" ->
                 TextOfLines(<<HeaderLine(label)>> \o body, nl) \o FooterLine(label)
          [] shape = "emptyBody" ->
                 TextOfLines(<<HeaderLine(label), FooterLine(label)>>, nl)
          [] shape = "twoEnvelopes" ->
                 TextOfLines(envelope \o <<HeaderLine(other)>> \o body
                                 \o <<FooterLine(other)>>, nl)
          [] OTHER -> body[1]

PemTexts ==
    {TextOfShape(shape, labels[1], labels[2], body, nl) :
        shape \in TextShapes,
        labels \in {<<CERTIFICATE, PUBLIC_KEY>>, <<RSA_PRIVATE_KEY, CERTIFICATE>>,
                    <<PRIVATE_KEY, PUBLIC_KEY>>},
        body \in TextBodies, nl \in {LF, CRLF}}

InitPemText ==
    /\ pemCall \in [pc : {"text"},
                    raw_key : {Buf(Utf8Encode(t)) : t \in PemTexts}
                                  \cup {Str(t) : t \in PemTexts},
                    pemType : {Undefined}, out : {Undefined}]
    /\ rsaCall = Idle
    /\ kdfCall = Idle
    /\ symCall = Idle
    /\ sigCall = Idle
    /\ asymCall = Idle
    /\ certCall = Idle
    /\ fileCall = Idle

CallIdentifyPemType ==
    /\ pemCall.pc = "text"
    /\ pemCall' = [pemCall EXCEPT !.pc = "identified",
                                  !.pemType = identifyPemType(pemCall.raw_key)]
    /\ UNCHANGED <<rsaCall, kdfCall, symCall, sigCall, asymCall, certCall, fileCall>>

CallReadPEMOnText ==
    /\ pemCall.pc = "text"
    /\ pemCall' = [pemCall EXCEPT !.pc = "read",
                                  !.pemType = identifyPemType(pemCall.raw_key),
                                  !.out = readPEM(pemCall.raw_key)]
    /\ UNCHANGED <<rsaCall, kdfCall, symCall, sigCall, asymCall, certCall, fileCall>>

NextPemText == CallIdentifyPemType \/ CallReadPEMOnText

SpecPemText == InitPemText /\ [][NextPemText]_vars

\* a line without the CR that a CR LF line end leaves on it
WithoutCR(line) ==
    IF Len(line) > 0 /\ line[Len(line)] = 13 THEN SubSeq(line, 1, Len(line) - 1)
    ELSE line

\* the lines of a text, the line ends LF and CR LF taken off
LinesOf(text) ==
    LET a == SplitLines(text)
    IN  [i \in 1..Len(a) |-> WithoutCR(a[i])]

\* the text is one envelope and nothing else: a header line and a footer
\* line of the same label, body lines between them, a line end after each
IsSingleEnvelope(text, label) ==
    LET a == LinesOf(text)
    IN  /\ Len(a) >= 3
        /\ a[1] = HeaderLine(label)
        /\ a[Len(a) - 1] = FooterLine(label)
        /\ a[Len(a)] = <<>>
        /\ \A i \in 2..(Len(a) - 2) : \A k \in 1..Len(a[i]) : IsBodyChar(a[i][k])

\* C17: identifyPemType returns the label L only for an input that is a
\* single envelope whose BEGIN label and END label are both L, and returns
\* undefined for every other input: mismatched labels, a missing footer,
\* lines before the header or after the footer.
C17_IdentifyPemType ==
    pemCall.pc = "identified" =>
        \/ pemCall.pemType = Undefined
        \/ /\ pemCall.pemType.t = "string"
           /\ IsSingleEnvelope(ToText(pemCall.raw_key), pemCall.pemType.v)

\* the line starts with the characters of w
StartsWith(line, w) == HasAt(line, 1, w)

\* What the code gives: a label is returned only when the text holds a
\* header line and, further down, a footer line of that same label.
IdentifiedHasMatchingLines ==
    (pemCall.pc = "identified" /\ pemCall.pemType # Undefined) =>
        LET a == LinesOf(ToText(pemCall.raw_key))
        IN  \E h \in 1..Len(a), f \in 1..Len(a) :
               /\ h < f
               /\ a[h] = HeaderLine(pemCall.pemType.v)
               /\ a[f] = FooterLine(pemCall.pemType.v)

\* the lines strictly between the first header line and the first footer
\* line after it, joined
RECURSIVE Joined(_)
Joined(lines) == IF Len(lines) = 0 THEN <<>> ELSE lines[1] \o Joined(Tail(lines))

InteriorOf(text) ==
    LET a == LinesOf(text)
        hs == {i \in 1..Len(a) : StartsWith(a[i], BEGIN_)}
        h == IF hs = {} THEN 0 ELSE CHOOSE i \in hs : \A j \in hs : i <= j
        fs == {i \in (h + 1)..Len(a) : StartsWith(a[i], END_)}
        f == IF fs = {} THEN Len(a) + 1 ELSE CHOOSE i \in fs : \A j \in fs : i <= j
    IN  IF h = 0 THEN <<>> ELSE Joined(SubSeq(a, h + 1, f - 1))

\* the bytes of an input: those of a buffer, the UTF-8 bytes of a string
BytesOf(raw_key) == IF raw_key.t = "string" THEN Utf8Encode(raw_key.v) ELSE raw_key.v

\* C18: readPEM.  For every input identified as PEM the result is the
\* base64 decoding of exactly the lines strictly between the BEGIN header
\* line and the END footer line (header and footer never enter the decoded
\* text, for LF and CR LF line ends alike); for every input not identified
\* as PEM the result is the input's bytes unchanged.
C18_ReadPEM ==
    pemCall.pc = "read" =>
        IF Truthy(pemCall.pemType)
        THEN pemCall.out = Buf(Base64Decode(InteriorOf(ToText(pemCall.raw_key))))
        ELSE pemCall.out = Buf(BytesOf(pemCall.raw_key))

\* What the code gives: the claim of C18 for an input that is a single
\* envelope, and for an input that is not identified as PEM.
ReadPEMOfSingleEnvelope ==
    pemCall.pc = "read" =>
        IF ~ Truthy(pemCall.pemType) THEN pemCall.out = Buf(BytesOf(pemCall.raw_key))
        ELSE IsSingleEnvelope(ToText(pemCall.raw_key), pemCall.pemType.v) =>
                 pemCall.out = Buf(Base64Decode(InteriorOf(ToText(pemCall.raw_key))))

(***************************************************************************)
(* The key-file helpers: setCertificateStore, read_sshkey_as_pem,          *)
(* read_private_rsa_key, read_public_rsa_key.  A file name is a string     *)
(* (character codes); the file system is the set of the paths of the files *)
(* that exist, each path without a leading "./"; a file holds the text of  *)
(* its own path, so that a key read tells which file it came from.         *)
(***************************************************************************)
DOT == <<46>>

\* String.prototype.substr(start, length), start >= 0
Substr(str, start, length) == Slice(str, start, start + length)

\* the path under which the file system knows the file a name refers to
Canonical(path) ==
    IF HasAt(path, 1, <<46, 47>>) THEN SubSeq(path, 3, Len(path)) ELSE path

\* fs.existsSync
existsSync(files, filename) == Canonical(filename) \in files

\* fs.readFileSync(filename, "ascii"): the text of the file, or the error
\* thrown when there is no such file
readFileSync(files, filename) ==
    IF existsSync(files, filename) THEN Str(Canonical(filename)) ELSE Err

\* the ssh-key-to-pem package: the key in a PUBLIC KEY envelope
sshKeyToPEM(key) ==
    Str(TextOfLines(<<HeaderLine(PUBLIC_KEY), key.v, FooterLine(PUBLIC_KEY)>>, LF))

\* the outcome of a helper: the path it read and the key it returned
read_sshkey_as_pem(store, files, filename) ==
    LET path == IF Substr(filename, 0, 1) # DOT THEN store \o filename ELSE filename
        key == readFileSync(files, path)
    IN  [path |-> path, key |-> IF key = Err THEN Err ELSE sshKeyToPEM(key)]

read_private_rsa_key(store, files, filename) ==
    LET path == IF Substr(filename, 0, 1) # DOT /\ ~ existsSync(files, filename)
                THEN store \o filename ELSE filename
    IN  [path |-> path, key |-> readFileSync(files, path)]

read_public_rsa_key(store, files, filename) ==
    read_private_rsa_key(store, files, filename)

\* setCertificateStore returning the store it has just set
setCertificateStore_ReturnsStore(certificate_store, store) ==
    [certificate_store |-> store, returned |-> store]

\* __certificate_store after the call, and the value returned
setCertificateStore(certificate_store, store) ==
    LET old_store == certificate_store
    IN  [certificate_store |-> store, returned |-> old_store]

(***************************************************************************)
(* Calls of the key-file helpers, in any order and number: the store is    *)
(* set, a helper reads a key.  argument and returned are those of the last *)
(* call of setCertificateStore, empty before the first.                    *)
(***************************************************************************)
\* "s/" and "t/"
CertificateStores == {<<115, 47>>, <<116, 47>>}

\* "k", "./k", "../k"
KeyFileNames == {<<107>>, <<46, 47, 107>>, <<46, 46, 47, 107>>}

\* the files that may exist: k and ../k seen from the working directory,
\* and k in each store
KeyFilePaths == {<<107>>, <<46, 46, 47, 107>>, <<115, 47, 107>>, <<116, 47, 107>>}

InitFile ==
    /\ fileCall \in [pc : {"ready"}, store : {<<115, 47>>}, files : SUBSET KeyFilePaths,
                     helper : {"none"}, filename : {<<>>}, outcome : {Undefined},
                     argument : {<<>>}, returned : {<<>>}]
    /\ pemCall = Idle
    /\ rsaCall = Idle
    /\ kdfCall = Idle
    /\ symCall = Idle
    /\ sigCall = Idle
    /\ asymCall = Idle
    /\ certCall = Idle

CallSetCertificateStore ==
    /\ \E store \in CertificateStores :
          LET o == setCertificateStore(fileCall.store, store)
          IN  fileCall' = [fileCall EXCEPT
                             !.pc = "stored", !.helper = "setCertificateStore",
                             !.filename = <<>>, !.outcome = Undefined,
                             !.store = o.certificate_store,
                             !.argument = store, !.returned = o.returned]
    /\ UNCHANGED <<pemCall, rsaCall, kdfCall, symCall, sigCall, asymCall, certCall>>

CallReadSshkeyAsPem ==
    /\ \E filename \in KeyFileNames :
          fileCall' = [fileCall EXCEPT
                         !.pc = "read", !.helper = "read_sshkey_as_pem",
                         !.filename = filename,
                         !.outcome = read_sshkey_as_pem(fileCall.store, fileCall.files,
                                                        filename)]
    /\ UNCHANGED <<pemCall, rsaCall, kdfCall, symCall, sigCall, asymCall, certCall>>

CallReadPrivateRsaKey ==
    /\ \E filename \in KeyFileNames :
          fileCall' = [fileCall EXCEPT
                         !.pc = "read", !.helper = "read_private_rsa_key",
                         !.filename = filename,
                         !.outcome = read_private_rsa_key(fileCall.store, fileCall.files,
                                                          filename)]
    /\ UNCHANGED <<pemCall, rsaCall, kdfCall, symCall, sigCall, asymCall, certCall>>

CallReadPublicRsaKey ==
    /\ \E filename \in KeyFileNames :
          fileCall' = [fileCall EXCEPT
                         !.pc = "read", !.helper = "read_public_rsa_key",
                         !.filename = filename,
                         !.outcome = read_public_rsa_key(fileCall.store, fileCall.files,
                                                         filename)]
    /\ UNCHANGED <<pemCall, rsaCall, kdfCall, symCall, sigCall, asymCall, certCall>>

NextFile ==
    \/ CallSetCertificateStore
    \/ CallReadSshkeyAsPem
    \/ CallReadPrivateRsaKey
    \/ CallReadPublicRsaKey

SpecFile == InitFile /\ [][NextFile]_vars

\* C19: key-file path resolution.  In every key-reading helper
\* (read_sshkey_as_pem, read_private_rsa_key, read_public_rsa_key) a file
\* name is resolved against the current certificate store unless it begins
\* with ".", in which case it is used as given; the rule is the same in all
\* helpers and does not depend on whether a file of that name exists.
C19_KeyFileResolution ==
    fileCall.pc = "read" =>
        fileCall.outcome.path =
            IF HasAt(fileCall.filename, 1, DOT) THEN fileCall.filename
            ELSE fileCall.store \o fileCall.filename

\* What the code gives: the rule in read_sshkey_as_pem, and in the two
\* other helpers as long as no file of the given name exists.
KeyFileResolutionUnlessFileExists ==
    (/\ fileCall.pc = "read"
     /\ \/ fileCall.helper = "read_sshkey_as_pem"
        \/ ~ existsSync(fileCall.files, fileCall.filename))
        => fileCall.outcome.path =
               IF HasAt(fileCall.filename, 1, DOT) THEN fileCall.filename
               ELSE fileCall.store \o fileCall.filename

(***************************************************************************)
(* Calls of privateDecrypt_long on ciphertexts as they arrive: blocks      *)
(* encrypted under the key or under another key, of the block size or of   *)
(* another size, whole or cut short.                                       *)
(***************************************************************************)
\* the blocks a sender can produce
CipherBlocks ==
    UNION {{publicEncrypt(m, k).v :
               m \in {x \in SeqsUpTo(RsaBytes, MaxBlockSize - RsaOverhead) :
                        publicEncrypt(x, k).t = "buffer"}} : k \in RsaKeys}

\* no block, one block, two blocks; each also with its last byte missing
Ciphertexts ==
    LET whole == {<<>>} \cup CipherBlocks
                     \cup {a \o b : a \in CipherBlocks, b \in CipherBlocks}
    IN  whole \cup {SubSeq(c, 1, Len(c) - 1) : c \in whole \ {<<>>}}

InitRsaCipher ==
    /\ rsaCall \in [pc : {"cipher"}, ciphertext : Ciphertexts, private_key : RsaKeys,
                    block_size : RsaKeySizes, decrypted : {Undefined}]
    /\ pemCall = Idle
    /\ kdfCall = Idle
    /\ symCall = Idle
    /\ sigCall = Idle
    /\ asymCall = Idle
    /\ certCall = Idle
    /\ fileCall = Idle

CallPrivateDecryptLongOnCiphertext ==
    /\ rsaCall.pc = "cipher"
    /\ rsaCall' = [rsaCall EXCEPT
                     !.pc = "deciphered",
                     !.decrypted = privateDecrypt_long(rsaCall.ciphertext,
                                                       rsaCall.private_key,
                                                       rsaCall.block_size)]
    /\ UNCHANGED <<pemCall, kdfCall, symCall, sigCall, asymCall, certCall, fileCall>>

NextRsaCipher == CallPrivateDecryptLongOnCiphertext

SpecRsaCipher == InitRsaCipher /\ [][NextRsaCipher]_vars

\* the decrypted chunks 0 .. n - 1 of a ciphertext, joined in order
RECURSIVE DecryptedChunks(_, _, _, _)
DecryptedChunks(ciphertext, key, block_size, n) ==
    IF n = 0 THEN <<>>
    ELSE DecryptedChunks(ciphertext, key, block_size, n - 1)
             \o privateDecrypt(SubSeq(ciphertext, (n - 1) * block_size + 1,
                                      Min(n * block_size, Len(ciphertext))), key).v

\* C23: privateDecrypt_long.  The ciphertext is cut into consecutive chunks
\* of block_size bytes (the last one shorter when the length is no multiple
\* of block_size), each is decrypted in order, and the result is exactly
\* the decrypted chunks joined in order, as long as the sum of their
\* lengths, with no slack bytes; the decrypted chunks fit the working
\* buffer of ceil(length / block_size) * block_size bytes.  The call fails
\* when the decryption of a chunk fails.
C23_DecryptFraming ==
    rsaCall.pc = "deciphered" =>
        LET c == rsaCall.ciphertext
            B == rsaCall.block_size
            count == (Len(c) + B - 1) \div B
            chunk(i) == SubSeq(c, i * B + 1, Min((i + 1) * B, Len(c)))
            plain(i) == privateDecrypt(chunk(i), rsaCall.private_key)
        IN  IF \A i \in 0..(count - 1) : plain(i).t = "buffer"
            THEN LET joined == DecryptedChunks(c, rsaCall.private_key, B, count)
                 IN  /\ rsaCall.decrypted = Buf(joined)
                     /\ Len(joined) <= count * B
            ELSE rsaCall.decrypted = Err

\* two blocks were decrypted and joined
C23_Witness ==
    /\ rsaCall.pc = "deciphered"
    /\ Len(rsaCall.ciphertext) = 2 * rsaCall.block_size
    /\ rsaCall.decrypted.t = "buffer"
    /\ Len(rsaCall.decrypted.v) >= 2

\* a ciphertext whose only chunk is shorter than block_size was decrypted
ShortFinalChunkDecrypted ==
    /\ rsaCall.pc = "deciphered"
    /\ Len(rsaCall.ciphertext) % rsaCall.block_size # 0
    /\ rsaCall.decrypted.t = "buffer"
    /\ Len(rsaCall.decrypted.v) >= 1

(***************************************************************************)
(* extractPublicKeyFromCertificate.  The argument is a certificate as      *)
(* above with one more field, wellFormed: whether the key reader can read  *)
(* it; its form is "der" for a Buffer, "pem" for a string and "other" for  *)
(* a value that is neither.  The immediates are the functions handed to    *)
(* setImmediate and not yet run, each one held as the arguments it will    *)
(* pass to the callback.                                                   *)
(***************************************************************************)
Null == [t |-> "null", v |-> <<>>]

\* what jsrsasign's KEYUTIL.getKey throws on a text it cannot read
KeyError == [t |-> "error", v |-> <<>>, message |-> "not supported argument"]

\* KEYUTIL.getPEM(KEYUTIL.getKey(certificate)): the PEM text of the public
\* key, held by its label and its modulus
PublicKeyPem(certificate) == [t |-> "string", label |-> PUBLIC_KEY, n |-> certificate.n]

\* the PEM text returned, or the error thrown
extractPublicKeyFromCertificateSync(certificate) ==
    LET pem == CertificateToPem(certificate)
    IN  IF pem.form # "pem" THEN AssertionError
        ELSE IF ~pem.wellFormed THEN KeyError
        ELSE PublicKeyPem(pem)

\* extractPublicKeyFromCertificate calling the callback before it returns
extractPublicKeyFromCertificate_Synchronous(certificate) ==
    LET keyPem == extractPublicKeyFromCertificateSync(certificate)
        args == IF keyPem.t = "error" THEN [err |-> keyPem, keyPem |-> Undefined]
                ELSE [err |-> Null, keyPem |-> keyPem]
    IN  [thrown |-> Undefined, callbackCalls |-> <<args>>, immediates |-> <<>>]

\* what the call threw, the calls of the callback made before it returned,
\* and the functions it handed to setImmediate
extractPublicKeyFromCertificate(certificate) ==
    LET keyPem == extractPublicKeyFromCertificateSync(certificate)
        args == IF keyPem.t = "error" THEN [err |-> keyPem, keyPem |-> Undefined]
                ELSE [err |-> Null, keyPem |-> keyPem]
    IN  [thrown |-> Undefined, callbackCalls |-> <<>>, immediates |-> <<args>>]

ExtractArguments ==
    [form : {"der", "pem", "other"},
     n : {Modulus(len, top) : len \in ModulusLengths, top \in {127, 128}},
     id : {1},
     wellFormed : BOOLEAN]

InitExtract ==
    /\ certCall \in [pc : {"extractStart"}, certificate : ExtractArguments,
                     thrown : {Undefined}, callbackCalls : {<<>>}, immediates : {<<>>}]
    /\ pemCall = Idle
    /\ rsaCall = Idle
    /\ kdfCall = Idle
    /\ symCall = Idle
    /\ sigCall = Idle
    /\ asymCall = Idle
    /\ fileCall = Idle

CallExtractPublicKeyFromCertificate ==
    /\ certCall.pc = "extractStart"
    /\ LET o == extractPublicKeyFromCertificate(certCall.certificate)
       IN  certCall' = [certCall EXCEPT !.pc = "returned",
                                        !.thrown = o.thrown,
                                        !.callbackCalls = o.callbackCalls,
                                        !.immediates = o.immediates]
    /\ UNCHANGED <<pemCall, rsaCall, kdfCall, symCall, sigCall, asymCall, fileCall>>

\* the event loop runs the oldest function handed to setImmediate, once the
\* caller has returned to it
RunImmediate ==
    /\ certCall.pc = "returned"
    /\ certCall.immediates # <<>>
    /\ certCall' = [certCall EXCEPT
                      !.callbackCalls = Append(@, Head(certCall.immediates)),
                      !.immediates = Tail(@)]
    /\ UNCHANGED <<pemCall, rsaCall, kdfCall, symCall, sigCall, asymCall, fileCall>>

NextExtract == CallExtractPublicKeyFromCertificate \/ RunImmediate

\* the event loop does not leave a function handed to setImmediate unrun
SpecExtract == InitExtract /\ [][NextExtract]_vars /\ WF_vars(RunImmediate)

\* the arguments the callback is to get
ExpectedCallbackArguments(certificate) ==
    LET canRead == certificate.form \in {"der", "pem"} /\ certificate.wellFormed
    IN  IF canRead THEN [err |-> Null, keyPem |-> PublicKeyPem(CertificateToPem(certificate))]
        ELSE [err |-> IF certificate.form = "other" THEN AssertionError ELSE KeyError,
              keyPem |-> Undefined]

\* C25: extractPublicKeyFromCertificate never throws to its caller and
\* calls its callback exactly once, always after the call has returned:
\* with (null, keyPem) when the synchronous extraction succeeds and with
\* (err, undefined) when it throws.  The callback is not called before the
\* call returns, and not twice.
C25_CallbackOnceDeferred ==
    /\ [](certCall.pc = "returned" =>
            /\ certCall.thrown = Undefined
            /\ \/ certCall.callbackCalls = <<>> /\ Len(certCall.immediates) = 1
               \/ /\ certCall.callbackCalls
                        = <<ExpectedCallbackArguments(certCall.certificate)>>
                  /\ certCall.immediates = <<>>)
    /\ [][certCall.pc = "extractStart" => certCall'.callbackCalls = <<>>]_vars
    /\ (certCall.pc = "returned")
           ~> (/\ certCall.pc = "returned"
               /\ certCall.callbackCalls
                     = <<ExpectedCallbackArguments(certCall.certificate)>>)

\* the callback got the PEM text of the key of a certificate given as a
\* Buffer
C25_Witness ==
    /\ certCall.pc = "returned"
    /\ certCall.certificate.form = "der"
    /\ Len(certCall.callbackCalls) = 1
    /\ certCall.callbackCalls[1].err = Null
    /\ certCall.callbackCalls[1].keyPem.t = "string"

\* the callback got the error thrown by the synchronous extraction
CallbackGotTheError ==
    /\ certCall.pc = "returned"
    /\ Len(certCall.callbackCalls) = 1
    /\ certCall.callbackCalls[1].err.t = "error"
    /\ certCall.callbackCalls[1].keyPem = Undefined

(***************************************************************************)
(* computeDerivedKeys on options that lack members.  absent is the set of  *)
(* the names of the members the caller left out; a member left out is      *)
(* undefined.                                                              *)
(***************************************************************************)
LengthMembers ==
    {"signingKeyLength", "encryptingKeyLength", "encryptingBlockSize", "signatureLength"}

\* The three asserts on lengths name signatureLength, encryptingKeyLength
\* and encryptingBlockSize.  With signingKeyLength undefined, offset1 is
\* undefined and offset2, offset3 and minLength are NaN: the loop of
\* makePseudoRandomBuffer, while (p_sha1.length <= NaN), does not run, buf
\* is empty and so are its three slices.
computeDerivedKeysWithout(secret, seed, options, absent) ==
    IF absent \cap {"signatureLength", "encryptingKeyLength", "encryptingBlockSize"} # {}
    THEN Err
    ELSE IF "signingKeyLength" \in absent
         THEN IF options.algorithm = NoValue THEN Err
              ELSE [signingKey |-> <<>>,
                    encryptingKey |-> <<>>,
                    initializationVector |-> <<>>,
                    signingKeyLength |-> NoValue,
                    encryptingKeyLength |-> options.encryptingKeyLength,
                    encryptingBlockSize |-> options.encryptingBlockSize,
                    signatureLength |-> options.signatureLength,
                    algorithm |-> options.algorithm]
    ELSE computeDerivedKeys(secret, seed, options)

InitKdfWithout ==
    /\ kdfCall \in [pc : {"withoutStart"}, secret : Secrets, seed : Seeds,
                    options : KeyOptions, absent : SUBSET LengthMembers,
                    keys : {Undefined}]
    /\ pemCall = Idle
    /\ rsaCall = Idle
    /\ symCall = Idle
    /\ sigCall = Idle
    /\ asymCall = Idle
    /\ certCall = Idle
    /\ fileCall = Idle

CallComputeDerivedKeysWithout ==
    /\ kdfCall.pc = "withoutStart"
    /\ kdfCall' = [kdfCall EXCEPT
                     !.pc = "withoutDerived",
                     !.keys = computeDerivedKeysWithout(kdfCall.secret, kdfCall.seed,
                                                        kdfCall.options, kdfCall.absent)]
    /\ UNCHANGED <<pemCall, rsaCall, symCall, sigCall,
                 asymCall, certCall, fileCall>>

NextKdfWithout == CallComputeDerivedKeysWithout

SpecKdfWithout == InitKdfWithout /\ [][NextKdfWithout]_vars

\* C27: computeDerivedKeys validates every length it slices with.  When
\* signingKeyLength, encryptingKeyLength or encryptingBlockSize is missing
\* the call fails, so every key set returned has a signingKey of
\* signingKeyLength bytes, an encryptingKey of encryptingKeyLength bytes and
\* an initializationVector of encryptingBlockSize bytes.
C27_LengthsValidated ==
    kdfCall.pc = "withoutDerived" =>
        IF kdfCall.absent
               \cap {"signingKeyLength", "encryptingKeyLength", "encryptingBlockSize"} # {}
        THEN kdfCall.keys = Err
        ELSE kdfCall.keys # Err =>
                 /\ Len(kdfCall.keys.signingKey) = kdfCall.options.signingKeyLength
                 /\ Len(kdfCall.keys.encryptingKey) = kdfCall.options.encryptingKeyLength
                 /\ Len(kdfCall.keys.initializationVector)
                        = kdfCall.options.encryptingBlockSize

\* What the code gives: the call fails when encryptingKeyLength,
\* encryptingBlockSize or signatureLength is missing; with these three
\* there, a missing signingKeyLength gives a key set of three empty
\* buffers, and a signingKeyLength that is there gives keys of the lengths
\* asked for.
LengthsValidatedButSigningKeyLength ==
    kdfCall.pc = "withoutDerived" =>
        IF kdfCall.absent
               \cap {"signatureLength", "encryptingKeyLength", "encryptingBlockSize"} # {}
        THEN kdfCall.keys = Err
        ELSE /\ kdfCall.keys # Err
             /\ IF "signingKeyLength" \in kdfCall.absent
                THEN /\ kdfCall.keys.signingKey = <<>>
                     /\ kdfCall.keys.encryptingKey = <<>>
                     /\ kdfCall.keys.initializationVector = <<>>
                ELSE /\ Len(kdfCall.keys.signingKey) = kdfCall.options.signingKeyLength
                     /\ Len(kdfCall.keys.encryptingKey)
                            = kdfCall.options.encryptingKeyLength
                     /\ Len(kdfCall.keys.initializationVector)
                            = kdfCall.options.encryptingBlockSize

\* C28: the certificate store is changed only by setCertificateStore.  A
\* key-file reader leaves it unchanged; setCertificateStore(s) returns the
\* store that was in effect just before the call and leaves s in effect, so
\* that after any sequence of calls the store is the argument of the last
\* call, and setting the returned value again gives back the store of
\* before the call.
C28_CertificateStoreFrame ==
    /\ [][/\ fileCall'.pc = "read" => fileCall'.store = fileCall.store
          /\ fileCall'.pc = "stored" =>
                /\ fileCall'.returned = fileCall.store
                /\ fileCall'.store = fileCall'.argument
                /\ setCertificateStore(fileCall'.store, fileCall'.returned).certificate_store
                       = fileCall.store]_vars
    /\ [](fileCall.argument # <<>> => fileCall.store = fileCall.argument)

\* the store was set to another one and then back: the second call
\* returned the store the first one had set
C28_Witness ==
    /\ fileCall.pc = "stored"
    /\ fileCall.store = <<115, 47>>
    /\ fileCall.returned = <<116, 47>>

\* a reader has read a key after the store was changed, from the new store
ReadAfterStoreChanged ==
    /\ fileCall.pc = "read"
    /\ fileCall.argument = <<116, 47>>
    /\ fileCall.store = <<116, 47>>
    /\ fileCall.outcome.path = <<116, 47, 107>>

=============================================================================
